---- MODULE Spec2Model ----
(***************************************************************************)
(* Control lifecycle and subclass dispatch of the GUI layer.               *)
(*                                                                         *)
(*   gui/native_controls/native_control_base.rs  NativeControlBase         *)
(*   gui/controls/edit.rs                         Edit::on / on_subclass   *)
(*   gui/events.rs                                Events (handler table)   *)
(*                                                                         *)
(* The OS (CreateWindowEx, GetDlgItem, GetClassLongPtr, SetWindowSubclass, *)
(* RemoveWindowSubclass, DefSubclassProc) is an environment: a call that   *)
(* can fail fails nondeterministically, and every call an operation makes  *)
(* is appended to trace, which holds the calls of the last operation.      *)
(***************************************************************************)
EXTENDS Integers, Sequences, FiniteSets, TLC

VARIABLES
    parent_hwnd,        \* the parent's HWND cell, read through ptr_parent_hwnd
    parent_atom,        \* class atom of the parent window (GCLP::ATOM)
    hwnd,               \* Obj.hwnd of every control
    opts_id,            \* Obj.opts_id of every control: "Wnd" or "Dlg"
    subclass_events,    \* Obj.subclass_events of every control
    BASE_SUBCLASS_ID,   \* static mut BASE_SUBCLASS_ID
    os_subclass,        \* OS side: installed subclass entries [hwnd, id, ref]
    os_destroyed,       \* OS side: windows that were sent NCDESTROY
    os_created,         \* OS side: windows CreateWindowEx made for a control
    installs,           \* SetWindowSubclass calls made for a control: [id, res]
    last,               \* the last operation and how it ended
    trace,              \* OS calls and handler runs of the last operation
    delivered,          \* round trip: messages delivered to a control's window
    ran,                \* round trip: handler runs of a control, with their place
    dlg_hwnd,           \* DialogModal: the dialog's HWND (hwnd_ref)
    user_events,        \* DialogModal: the table behind user_events_ref
    privileged_events,  \* DialogModal: the table behind privileged_events_ref
    modal,              \* DialogModal: where show_modal is, and its result
    reply,              \* the word the dialog procedure replied last
    hkey,               \* HkeyGuard.hkey of every guard
    dropped,            \* guards whose drop has run
    reg_closed,         \* OS side: the RegCloseKey calls made so far
    pc,                 \* UI threads: where a thread is in install_subclass_if_needed
    tmp,                \* UI threads: the value a thread read from BASE_SUBCLASS_ID
    installed_id,       \* UI threads: the subclass_id a thread installed with
    com_ptr,            \* COM: the pointer every interface wrapper holds
    com_alive,          \* COM: the wrappers that exist and were not dropped
    com_calls,          \* COM: the vtable calls made so far
    com_result,         \* COM: what the last GetParent returned
    events_objs,        \* Events objects: [state, original, msgs] of every one
    msgs_heap,          \* the heap: the HashMap block behind every address
    BASE_CTRL_ID,       \* the counter auto_ctrl_id draws from
    constructed,        \* the controls Edit::new or Edit::new_dlg has built
    opts_given,         \* the ctrl_id of the options handed to Edit::new
    opts_ctrl_id,       \* poly_opts: opts.ctrl_id, or the id given to new_dlg
    parent_events_id    \* parent_events: the id EditEvents::new was given

vars == <<parent_hwnd, parent_atom, hwnd, opts_id, subclass_events, BASE_SUBCLASS_ID,
          os_subclass, os_destroyed, os_created, installs, last, trace, delivered, ran,
          dlg_hwnd, user_events, privileged_events, modal, reply,
          hkey, dropped, reg_closed, pc, tmp, installed_id,
          com_ptr, com_alive, com_calls, com_result, events_objs, msgs_heap,
          BASE_CTRL_ID, constructed, opts_given, opts_ctrl_id, parent_events_id>>

\* what no operation of the program writes after construction
fixed == <<parent_atom, opts_id>>

\* what only the round-trip script writes
script == <<delivered, ran>>

\* the modal dialog
host == <<dlg_hwnd, user_events, privileged_events, modal, reply>>

\* the registry key guards
registry == <<hkey, dropped, reg_closed>>

\* the UI threads that install subclasses at the same time
threads == <<pc, tmp, installed_id>>

\* what the operations on controls leave alone
\* the COM interface wrappers
interfaces == <<com_ptr, com_alive, com_calls, com_result>>

\* the Events objects and the maps they point to
tables == <<events_objs, msgs_heap>>

\* the construction of the controls
edits == <<BASE_CTRL_ID, constructed, opts_given, opts_ctrl_id, parent_events_id>>

elsewhere == <<interfaces, tables, edits>>

aside == <<host, registry, threads, elsewhere>>

----------------------------------------------------------------------------
(* Values *)

Ctrls == {"edit1", "edit2"}

NullHandle == "null"
ParentHandle == "hwnd:parent"
\* OS: the n-th window CreateWindowEx makes for a control is a new window
WndHandle(c, n) == "hwnd:" \o c \o ":" \o ToString(n)
\* OS: the dialog item GetDlgItem finds under the control's id
ItemHandle(c) == "item:" \o c

\* ref_data of a subclass: the address of the control object, or null
NullPtr == "nullptr"
PtrOf(c) == c

\* privs::WC_DIALOG, the class atom of dialog boxes (#32770)
WC_DIALOG == 32770
\* the parent is a dialog, or a window of a class the program registered
ParentAtoms == {WC_DIALOG, 49152}

MsgIds == {"CREATE", "SIZE", "NCDESTROY"}
RegIds == {"SIZE", "NCDESTROY"}
MakeLParam(lo, hi) == lo + hi * 65536
\* the lparam a message comes with: SIZE carries (width, height), the others none
LParamsOf(msg) == IF msg = "SIZE" THEN {MakeLParam(1, 2), MakeLParam(640, 480)} ELSE {0}
Words == {-1, 0, 1}

Handlers == {"f"}
NoHandler == "none"

PanicCtrlCreated == "Cannot add events after the control is created."
PanicParentCreated == "Cannot add events after the parent window is created."
PanicSubCtrlCreated == "Cannot add subclass events after the control is created."
PanicSubParentCreated == "Cannot add subclass events after the parent window is created."
PanicTwice == "Cannot create control twice."
PanicNoParent == "Cannot create control before parent window is created."
PanicNotDialog == "Parent window is not a dialog, cannot create control."
NoPanic == "no panic"

----------------------------------------------------------------------------
(* Event table: a map from message id to handler (gui/events.rs) *)

EmptyTable == [id \in MsgIds |-> NoHandler]

\* Events::wm: HashMap::insert(ident, Box::new(func))
wm(table, ident, func) == [table EXCEPT ![ident] = func]

\* MsgEvents::is_empty
is_empty(table) == \A id \in MsgIds : table[id] = NoHandler

\* MsgEvents::process_effective_message: the handler stored under the id, if any
lookup(table, ident) == table[ident]

----------------------------------------------------------------------------
(* Outcome of an operation *)

Last(op, c, outcome, panic, msg, lparam, id, ref, ret) ==
    [op |-> op, ctrl |-> c, outcome |-> outcome, panic |-> panic,
     msg |-> msg, lparam |-> lparam, id |-> id, ref |-> ref, ret |-> ret]

Calls(name) == SelectSeq(trace, LAMBDA e : e.call = name)

Call(name, h, msg, lparam, id, ref, res, word) ==
    [call |-> name, hwnd |-> h, msg |-> msg, lparam |-> lparam,
     id |-> id, ref |-> ref, res |-> res, word |-> word]

OsResults == {"ok", "err"}

----------------------------------------------------------------------------
(* Words: an isize is IsizeBits bits, least significant first *)

I32Bits == 32
IsizeBits == 64

\* bit i of the two's complement form of v; v fits in 32 bits, so every bit
\* from 31 up is the sign
Bit(v, i) == IF i < I32Bits - 1 THEN (v \div (2 ^ i)) % 2
             ELSE IF v < 0 THEN 1 ELSE 0

ToBits(v, w) == [i \in 1..w |-> Bit(v, i - 1)]

\* the cast of an i32 through u32, which fills the upper half with zeros
as_isize_i32_ZeroExtended(bits) ==
    [i \in 1..IsizeBits |-> IF i <= I32Bits THEN bits[i] ELSE 0]

\* as_isize!: `$p as isize` of an i32 extends the sign
as_isize_i32(bits) ==
    [i \in 1..IsizeBits |-> IF i <= I32Bits THEN bits[i] ELSE bits[I32Bits]]

\* as_isize!: `$p as isize` of a bool
as_isize_bool(b) == ToBits(IF b THEN 1 ELSE 0, IsizeBits)

\* as_isize!: `$p as isize` of an isize
as_isize_isize(bits) == bits

\* from_handle!: `$p.as_ptr() as isize`, the pointer the handle wraps
from_handle(h) == h.ptr

----------------------------------------------------------------------------
(* Typed registrations of Events (gui/events.rs, lines 126-201) *)

Reg(name, ident, pat, ret, retval) ==
    [name |-> name, ident |-> ident, pat |-> pat, ret |-> ret, retval |-> retval]

\* method, message id, the Wm variant its closure matches, the type the
\* handler returns, and the word of the wm_ret_isize! family
TypedRegs == {
    Reg("wm_activate", "ACTIVATE", "Activate", "unit", 0),
    Reg("wm_activate_app", "ACTIVATEAPP", "ActivateApp", "unit", 0),
    Reg("wm_close", "CLOSE", "Close", "unit", 0),
    Reg("wm_command", "COMMAND", "Command", "unit", 0),
    Reg("wm_create", "CREATE", "Create", "i32", 0),
    Reg("wm_ctl_color_btn", "CTLCOLORBTN", "CtlColorBtn", "hdc", 0),
    Reg("wm_ctl_color_dlg", "CTLCOLORDLG", "CtlColorDlg", "hdc", 0),
    Reg("wm_ctl_color_edit", "CTLCOLOREDIT", "CtlColorEdit", "hdc", 0),
    Reg("wm_ctl_color_list_box", "CTLCOLORLISTBOX", "CtlColorListBox", "hdc", 0),
    Reg("wm_ctl_color_scroll_bar", "CTLCOLORSCROLLBAR", "CtlColorListScrollBar", "hdc", 0),
    Reg("wm_ctl_color_static", "CTLCOLORSTATIC", "CtlColorListStatic", "hdc", 0),
    Reg("wm_destroy", "DESTROY", "Destroy", "unit", 0),
    Reg("wm_drop_files", "DROPFILES", "DropFiles", "unit", 0),
    Reg("wm_init_dialog", "INITDIALOG", "InitDialog", "bool", 0),
    Reg("wm_init_menu_popup", "INITMENUPOPUP", "InitMenuPopup", "unit", 0),
    Reg("wm_notify", "NOTIFY", "Notify", "isize", 0),
    Reg("wm_null", "NULL", "Null", "unit", 0),
    Reg("wm_size", "SIZE", "Size", "unit", 0),
    Reg("wm_sizing", "SIZING", "Sizing", "unit", 1) }

RegNames == {r.name : r \in TypedRegs}
RegOf(name) == CHOOSE r \in TypedRegs : r.name = name
WmIds == {r.ident : r \in TypedRegs}

\* the closure a registration stores under its id: the method that built it
\* and the handler it moved in; "wm" is the untyped registration
Closure(reg, func) == [reg |-> reg, func |-> func]
NoClosure == Closure("none", "none")

\* Events::new for the tables of a window
NewEvents == [id \in WmIds |-> NoClosure]

\* msg::Wm: the variant a message id is decoded to
VariantOf(ident) ==
    CASE ident = "ACTIVATE" -> "Activate"
      [] ident = "ACTIVATEAPP" -> "ActivateApp"
      [] ident = "CLOSE" -> "Close"
      [] ident = "COMMAND" -> "Command"
      [] ident = "CREATE" -> "Create"
      [] ident = "CTLCOLORBTN" -> "CtlColorBtn"
      [] ident = "CTLCOLORDLG" -> "CtlColorDlg"
      [] ident = "CTLCOLOREDIT" -> "CtlColorEdit"
      [] ident = "CTLCOLORLISTBOX" -> "CtlColorListBox"
      [] ident = "CTLCOLORSCROLLBAR" -> "CtlColorListScrollBar"
      [] ident = "CTLCOLORSTATIC" -> "CtlColorListStatic"
      [] ident = "DESTROY" -> "Destroy"
      [] ident = "DROPFILES" -> "DropFiles"
      [] ident = "INITDIALOG" -> "InitDialog"
      [] ident = "INITMENUPOPUP" -> "InitMenuPopup"
      [] ident = "NOTIFY" -> "Notify"
      [] ident = "NULL" -> "Null"
      [] ident = "SIZE" -> "Size"
      [] ident = "SIZING" -> "Sizing"

\* the payload of a message: what its parameters decode to
Decode(ident, wparam, lparam) ==
    [variant |-> VariantOf(ident), wparam |-> wparam, lparam |-> lparam]

\* what a handler hands back: a bool in b, the bits of an i32, of an isize or
\* of the pointer of a handle in bits
Ret(ty, b, bits) == [ty |-> ty, b |-> b, bits |-> bits]
Unit == Ret("unit", FALSE, <<>>)
SmallInts == {-1, 0, 2}
RawPtrs == {0, 4660}

FuncReturns(ty) ==
    CASE ty = "unit" -> {Unit}
      [] ty = "bool" -> {Ret("bool", b, <<>>) : b \in BOOLEAN}
      [] ty = "i32" -> {Ret("i32", FALSE, ToBits(v, I32Bits)) : v \in SmallInts}
      [] ty = "isize" -> {Ret("isize", FALSE, ToBits(v, IsizeBits)) : v \in SmallInts}
      [] ty = "hdc" -> {Ret("hdc", FALSE, ToBits(v, IsizeBits)) : v \in RawPtrs}

\* the type of what the handler of a registration returns
RetTypeOf(reg) == IF reg = "wm" THEN "isize" ELSE RegOf(reg).ret

\* a wm_ret_isize! closure that replies 0 for every message
retval_of_AlwaysZero(reg) == ToBits(0, IsizeBits)

\* wm_ret_isize!: `$retval`, the word the closure replies after the handler ran
retval_of(reg) == ToBits(RegOf(reg).retval, IsizeBits)

\* wm_ret_isize! / wm_ret_convt!: does `if let $wmpat(p) = p` match
pattern_matches(reg, m) == reg = "wm" \/ RegOf(reg).pat = m.variant

\* wm_ret_isize! / wm_ret_convt!: the word the closure replies when the
\* handler returned fret
closure_reply(reg, fret) ==
    CASE reg = "wm" -> fret.bits
      [] RetTypeOf(reg) = "unit" /\ reg # "wm" -> retval_of(reg)
      [] RetTypeOf(reg) = "bool" -> as_isize_bool(fret.b)
      [] RetTypeOf(reg) = "i32" -> as_isize_i32(fret.bits)
      [] RetTypeOf(reg) = "isize" /\ reg # "wm" -> as_isize_isize(fret.bits)
      [] RetTypeOf(reg) = "hdc" -> from_handle([ptr |-> fret.bits])

PanicInternal == "Event incorrectly handled internally. This is a bug."

----------------------------------------------------------------------------
(* DialogModal (gui/dialog_modal.rs) *)

DlgHandle == "hwnd:dlg"
OwnerHandle == "hwnd:owner"
\* co::DLGID::CANCEL
DLGID_CANCEL == 2

PanicUnwrap == "called Result::unwrap() on an Err value"

\* the closures default_message_handlers stores
DefaultInitDialog == Closure("wm_init_dialog", "center_in_parent")
DefaultClose == Closure("wm_close", "EndDialog")

\* DialogModal::new: DialogBase::new, then default_message_handlers
DialogModal_new ==
    /\ dlg_hwnd = NullHandle
    /\ privileged_events = wm(NewEvents, "INITDIALOG", DefaultInitDialog)
    /\ user_events = wm(NewEvents, "CLOSE", DefaultClose)
    /\ modal = [state |-> "idle", result |-> 0]
    /\ reply = <<>>

----------------------------------------------------------------------------
(* HkeyGuard (advapi/guard.rs) *)

Guards == {"g1", "g2"}

\* the raw value of a handle: a pointer-sized unsigned number, written as its
\* four 16-bit digits, the most significant first
Raw(d3, d2, d1, d0) == <<d3, d2, d1, d0>>

\* a < b on raw values
Less(a, b) ==
    \E i \in 1..4 : a[i] < b[i] /\ \A j \in 1..(i - 1) : a[j] = b[j]

HKEY_NULL == Raw(0, 0, 0, 0)
\* HKEY::CLASSES_ROOT, 0x8000_0000
HKEY_CLASSES_ROOT == Raw(0, 0, 32768, 0)
\* HKEY::CURRENT_USER, 0x8000_0001
HKEY_CURRENT_USER == Raw(0, 0, 32768, 1)
\* HKEY::PERFORMANCE_NLSTEXT, 0x8000_0060
HKEY_PERFORMANCE_NLSTEXT == Raw(0, 0, 32768, 96)

\* handles a guard is made to wrap: null, the ends and the inside of the
\* predefined range, its two neighbours, keys the OS opened
RawHandles ==
    {HKEY_NULL, HKEY_CLASSES_ROOT, HKEY_CURRENT_USER, HKEY_PERFORMANCE_NLSTEXT,
     Raw(0, 0, 32767, 65535), Raw(0, 0, 32768, 97), Raw(0, 0, 0, 660),
     Raw(32767, 0, 0, 16)}

\* Handle::as_opt: None for the null handle
as_opt(h) == IF h = HKEY_NULL THEN "None" ELSE "Some"

\* the test with the ends of the range left out
outside_predefined_OpenEnds(h) ==
    ~Less(HKEY_CLASSES_ROOT, h) \/ ~Less(h, HKEY_PERFORMANCE_NLSTEXT)

\* the test turned around
outside_predefined_Inverted(h) ==
    ~(Less(h, HKEY_CLASSES_ROOT) \/ Less(HKEY_PERFORMANCE_NLSTEXT, h))

\* Drop for HkeyGuard: `h.0 < HKEY::CLASSES_ROOT.0 || h.0 > HKEY::PERFORMANCE_NLSTEXT.0`
outside_predefined(h) ==
    Less(h, HKEY_CLASSES_ROOT) \/ Less(HKEY_PERFORMANCE_NLSTEXT, h)

\* no guard has been dropped, nothing was closed
NoGuards ==
    /\ hkey = [g \in Guards |-> HKEY_NULL]
    /\ dropped = {}
    /\ reg_closed = <<>>

\* UI threads, each creating a control of its own that has subclass events
Threads == {"t1", "t2"}

\* no thread is installing a subclass
ThreadsIdle ==
    /\ pc = [t \in Threads |-> "idle"]
    /\ tmp = [t \in Threads |-> 0]
    /\ installed_id = [t \in Threads |-> 0]

----------------------------------------------------------------------------
(* COM interface wrappers: IDXGIObject and what GetParent yields. A wrapper  *)
(* holds one pointer; dropping a wrapper calls Release through the vtable    *)
(* when the pointer is not null.                                            *)

\* the wrapper GetParent is called on, and the one it fills (`queried`)
ComWrappers == {"object", "queried"}

\* pointers to COM objects; ComNull is what T::null() holds
ComNull == "null"
ComPtrs == {"obj#1", "obj#2"}

\* the interfaces T that GetParent is asked for, and their IIDs
Interfaces == {"IUnknown", "IDXGIObject", "IDXGIFactory"}
IID(T) ==
    CASE T = "IUnknown" -> "00000000-0000-0000-c000-000000000046"
      [] T = "IDXGIObject" -> "aec22fb8-76f3-4639-9be0-28eb43a67a2e"
      [] T = "IDXGIFactory" -> "7b7166ec-21c7-44ae-b21a-c9ae321ae369"

\* HRES values the object answers with
S_OK == 0
S_FALSE == 1
E_NOINTERFACE == -2147467262
E_FAIL == -2147467259
HResults == {S_OK, S_FALSE, E_NOINTERFACE, E_FAIL}

\* ok_to_hrresult: Ok(()) for S_OK, Err(hr) for every other value
ok_to_hrresult(hr) ==
    IF hr = S_OK THEN [kind |-> "Ok", hr |-> S_OK] ELSE [kind |-> "Err", hr |-> hr]

\* the IID of the wrapper's own interface in place of T's
query_iid_OfSelf(self, T) == IID(self)

\* GetParent: the IID handed to the call, `&T::IID as *const _ as _`
query_iid(self, T) == IID(T)

\* a vtable call: the slot, the object pointer, the IID, the HRES returned
ComCall(slot, this, iid, hr) == [call |-> slot, this |-> this, iid |-> iid, hr |-> hr]

\* what GetParent returned: Ok(queried) or Err(hr)
ComResult(kind, hr, ptr, iid) == [kind |-> kind, hr |-> hr, ptr |-> ptr, iid |-> iid]
NoComResult == ComResult("none", S_OK, ComNull, "")

\* Drop of a wrapper that holds ptr: Release unless the pointer is null
release_calls(ptr) ==
    IF ptr # ComNull THEN <<ComCall("Release", ptr, "", S_OK)>> ELSE <<>>

\* no COM object was acquired
NoInterfaces ==
    /\ com_ptr = [w \in ComWrappers |-> ComNull]
    /\ com_alive = {}
    /\ com_calls = <<>>
    /\ com_result = NoComResult

----------------------------------------------------------------------------
(* Events as an object: a flag and a raw pointer to a heap-allocated map.   *)
(* A clone shares the pointer; the original releases the map when dropped.   *)

\* Events objects of the program: the one `new` returns and its clones
EvObjs == {"e1", "e2", "e3"}

\* heap addresses of maps; NullMap is no address
MapAddrs == {"map#1", "map#2"}
NullMap == "nullmap"

\* an Events value: where the object is in its life, and its two fields
EventsObj(state, original, msgs) == [state |-> state, original |-> original, msgs |-> msgs]
NoEvents == EventsObj("none", FALSE, NullMap)

\* a heap block: whether it is allocated, the map in it, how often it was
\* released, and whether it was accessed after its release
Block(state, map, releases, stale) ==
    [state |-> state, map |-> map, releases |-> releases, stale |-> stale]
FreeBlock == Block("free", EmptyTable, 0, FALSE)

\* Events::new: Box::new(HashMap::new()) leaked to the address addr
Events_new(addr) == EventsObj("live", TRUE, addr)

\* a clone that takes the flag of the object it is made from
Events_clone_KeepsFlag(self) == EventsObj("live", self.original, self.msgs)

\* Clone for Events: `original: false`, `msgs: self.msgs`
Events_clone(self) == EventsObj("live", FALSE, self.msgs)

\* Drop for Events: `if self.original { Box::from_raw(self.msgs) }`
Events_drop_releases(self) == self.original

\* no Events object exists, no map is allocated
NoTables ==
    /\ events_objs = [e \in EvObjs |-> NoEvents]
    /\ msgs_heap = [a \in MapAddrs |-> FreeBlock]

----------------------------------------------------------------------------
(* Edit::new and the control id (gui/controls/edit.rs) *)

\* globals::auto_ctrl_id: the first id the counter hands out
AutoBase == 20000
U16 == 65536

\* the ctrl_id field of the EditOpts handed to Edit::new; 0 is the default
OptIds == {0, 7, AutoBase}

\* every control gets an id from the counter, whatever its options say
define_ctrl_id_AlwaysAuto(given, auto) == auto

\* EditOpts::define_ctrl_id: `if self.ctrl_id == 0 { self.ctrl_id = auto_ctrl_id(); }`
\* where auto is what auto_ctrl_id would return
define_ctrl_id(given, auto) == IF given = 0 THEN auto ELSE given

\* Edit::ctrl_id: opts.ctrl_id of PolyOpts::Wnd, the id of PolyOpts::Dlg
ctrl_id(c) == opts_ctrl_id[c]

\* the n-th control of the program, built with default options
BuiltNth(c) == IF c = "edit1" THEN 0 ELSE 1

\* every control was built, with ids from the counter
EditsBuilt ==
    /\ constructed = Ctrls
    /\ opts_given = [c \in Ctrls |-> 0]
    /\ opts_ctrl_id = [c \in Ctrls |-> AutoBase + BuiltNth(c)]
    /\ parent_events_id = [c \in Ctrls |-> AutoBase + BuiltNth(c)]
    /\ BASE_CTRL_ID = AutoBase + Cardinality(Ctrls)

\* nothing outside the controls, the dialog, the guards and the threads
ElsewhereIdle == NoInterfaces /\ NoTables /\ EditsBuilt

----------------------------------------------------------------------------
Init ==
    /\ parent_hwnd = NullHandle
    /\ parent_atom \in ParentAtoms
    /\ hwnd = [c \in Ctrls |-> NullHandle]
    /\ opts_id \in [Ctrls -> {"Wnd", "Dlg"}]
    /\ os_created = [c \in Ctrls |-> 0]
    /\ subclass_events = [c \in Ctrls |-> EmptyTable]
    /\ BASE_SUBCLASS_ID = 0
    /\ os_subclass = {}
    /\ os_destroyed = {}
    /\ installs = [c \in Ctrls |-> <<>>]
    /\ last = Last("new", "", "ok", NoPanic, "", 0, 0, NullPtr, 0)
    /\ trace = <<>>
    /\ delivered = [c \in Ctrls |-> <<>>]
    /\ ran = [c \in Ctrls |-> <<>>]
    /\ DialogModal_new
    /\ NoGuards
    /\ ThreadsIdle
    /\ ElsewhereIdle

\* The parent window comes into existence: its HWND cell becomes non-null.
ParentCreate ==
    /\ parent_hwnd = NullHandle
    /\ parent_hwnd' = ParentHandle
    /\ last' = Last("parent_create", "", "ok", NoPanic, "", 0, 0, NullPtr, 0)
    /\ trace' = <<>>
    /\ UNCHANGED <<fixed, hwnd, subclass_events, BASE_SUBCLASS_ID,
                   os_subclass, os_destroyed, os_created, installs, script, aside>>

----------------------------------------------------------------------------
(* NativeControlBase: event tables *)

\* NativeControlBase::is_parent_created
is_parent_created(c) == parent_hwnd # NullHandle

\* NativeControlBase::on: the panic it raises, or NoPanic when it returns the table
on(c) ==
    IF hwnd[c] # NullHandle THEN PanicCtrlCreated
    ELSE IF is_parent_created(c) THEN PanicParentCreated
    ELSE NoPanic

\* Edit::on
Edit_on(c) ==
    IF hwnd[c] # NullHandle THEN PanicCtrlCreated
    ELSE IF is_parent_created(c) THEN PanicParentCreated
    ELSE NoPanic

\* on_subclass without its second test
on_subclass_NoParentTest(c) ==
    IF hwnd[c] # NullHandle THEN PanicSubCtrlCreated ELSE NoPanic

\* NativeControlBase::on_subclass (Edit::on_subclass forwards to it)
on_subclass(c) ==
    IF hwnd[c] # NullHandle THEN PanicSubCtrlCreated
    ELSE IF is_parent_created(c) THEN PanicSubParentCreated
    ELSE NoPanic

Asked(op, c, p) ==
    /\ last' = Last(op, c, IF p = NoPanic THEN "ok" ELSE "panic", p, "", 0, 0, NullPtr, 0)
    /\ trace' = <<>>

\* ctrl.on(): the parent-scoped events of the control are asked for
On(c) ==
    /\ Asked("on", c, on(c))
    /\ UNCHANGED <<parent_hwnd, fixed, hwnd, subclass_events, BASE_SUBCLASS_ID,
                   os_subclass, os_destroyed, os_created, installs, script, aside>>

EditOn(c) ==
    /\ Asked("Edit::on", c, Edit_on(c))
    /\ UNCHANGED <<parent_hwnd, fixed, hwnd, subclass_events, BASE_SUBCLASS_ID,
                   os_subclass, os_destroyed, os_created, installs, script, aside>>

\* ctrl.on_subclass().wm(ident, func)
OnSubclass(c, ident, func) ==
    LET p == on_subclass(c) IN
    /\ last' = Last("on_subclass", c, IF p = NoPanic THEN "ok" ELSE "panic", p,
                    ident, 0, 0, NullPtr, 0)
    /\ trace' = <<>>
    /\ subclass_events' = IF p = NoPanic
                          THEN [subclass_events EXCEPT ![c] = wm(@, ident, func)]
                          ELSE subclass_events
    /\ UNCHANGED <<parent_hwnd, fixed, hwnd, BASE_SUBCLASS_ID,
                   os_subclass, os_destroyed, os_created, installs, script, aside>>

----------------------------------------------------------------------------
(* NativeControlBase: creation *)

\* the precondition without its test of the parent
create_check_NoParentTest(c) ==
    IF hwnd[c] # NullHandle THEN PanicTwice ELSE NoPanic

\* the precondition without its test of the control's own handle
create_check_NoTwiceTest(c) ==
    IF ~is_parent_created(c) THEN PanicNoParent ELSE NoPanic

\* the precondition both create_window and create_dlg start with
create_check(c) ==
    IF hwnd[c] # NullHandle THEN PanicTwice
    ELSE IF ~is_parent_created(c) THEN PanicNoParent
    ELSE NoPanic

\* the dialog test comparing the wrong way round
not_a_dialog_Inverted(atom) == (atom % 65536) = WC_DIALOG

\* create_dlg: parent_atom as u16 != WC_DIALOG
not_a_dialog(atom) == (atom % 65536) # WC_DIALOG

\* the subclass installed whether or not there are subclass events
subclass_needed_Always(c) == TRUE

\* install_subclass_if_needed: is SetWindowSubclass to be called
subclass_needed(c) == ~is_empty(subclass_events[c])

\* the counter read and written back as it is
bump_Forgotten(n) == n

\* install_subclass_if_needed: `BASE_SUBCLASS_ID += 1`
bump(n) == n + 1

\* install_subclass_if_needed on the handle h just stored; r is what
\* SetWindowSubclass returns, pre the calls the creation made before
install_subclass_if_needed(c, h, r, pre, op) ==
    IF subclass_needed(c)
    THEN LET subclass_id == bump(BASE_SUBCLASS_ID) IN
         /\ BASE_SUBCLASS_ID' = subclass_id
         /\ installs' = [installs EXCEPT ![c] = Append(@, [id |-> subclass_id, res |-> r])]
         /\ os_subclass' = IF r = "ok"
                           THEN os_subclass \cup
                                {[hwnd |-> h, id |-> subclass_id, ref |-> PtrOf(c)]}
                           ELSE os_subclass
         /\ trace' = pre \o <<Call("SetWindowSubclass", h, "", 0,
                                   subclass_id, PtrOf(c), r, 0)>>
         /\ last' = Last(op, c, r, NoPanic, "", 0, 0, NullPtr, 0)
    ELSE /\ UNCHANGED <<BASE_SUBCLASS_ID, installs, os_subclass>>
         /\ trace' = pre
         /\ last' = Last(op, c, "ok", NoPanic, "", 0, 0, NullPtr, 0)

Panicked(op, c, p, calls) ==
    /\ last' = Last(op, c, "panic", p, "", 0, 0, NullPtr, 0)
    /\ trace' = calls
    /\ UNCHANGED <<hwnd, BASE_SUBCLASS_ID, os_subclass, os_created, installs>>

Failed(op, c, calls) ==
    /\ last' = Last(op, c, "err", NoPanic, "", 0, 0, NullPtr, 0)
    /\ trace' = calls
    /\ UNCHANGED <<hwnd, BASE_SUBCLASS_ID, os_subclass, os_created, installs>>

\* create_window keeping the new window in a local: the subclass is installed
\* on it while the control's handle is still null
create_window_HandleNotStored(c, r1, r2) ==
    LET p == create_check(c)
        h == WndHandle(c, os_created[c] + 1)
        cw == Call("CreateWindowEx", parent_hwnd, "", 0, ctrl_id(c), NullPtr, r1, 0)
    IN  IF p # NoPanic THEN Panicked("create_window", c, p, <<>>)
        ELSE IF r1 = "err" THEN Failed("create_window", c, <<cw>>)
        ELSE /\ UNCHANGED hwnd
             /\ os_created' = [os_created EXCEPT ![c] = @ + 1]
             /\ install_subclass_if_needed(c, h, r2, <<cw>>, "create_window")

\* NativeControlBase::create_window; r1 is what CreateWindowEx returns, r2 what
\* SetWindowSubclass returns
create_window(c, r1, r2) ==
    LET p == create_check(c)
        h == WndHandle(c, os_created[c] + 1)
        cw == Call("CreateWindowEx", parent_hwnd, "", 0, ctrl_id(c), NullPtr, r1, 0)
    IN  IF p # NoPanic THEN Panicked("create_window", c, p, <<>>)
        ELSE IF r1 = "err" THEN Failed("create_window", c, <<cw>>)
        ELSE /\ hwnd' = [hwnd EXCEPT ![c] = h]
             /\ os_created' = [os_created EXCEPT ![c] = @ + 1]
             /\ install_subclass_if_needed(c, h, r2, <<cw>>, "create_window")

\* NativeControlBase::create_dlg; r1 is what GetDlgItem returns, r2 what
\* SetWindowSubclass returns
create_dlg(c, r1, r2) ==
    LET p == create_check(c)
        h == ItemHandle(c)
        gc == Call("GetClassLongPtr", parent_hwnd, "", 0, 0, NullPtr, "ok", parent_atom)
        gd == Call("GetDlgItem", parent_hwnd, "", 0, 0, NullPtr, r1, 0)
    IN  IF p # NoPanic THEN Panicked("create_dlg", c, p, <<>>)
        ELSE IF not_a_dialog(parent_atom)
             THEN Panicked("create_dlg", c, PanicNotDialog, <<gc>>)
        ELSE IF r1 = "err" THEN Failed("create_dlg", c, <<gc, gd>>)
        ELSE /\ hwnd' = [hwnd EXCEPT ![c] = h]
             /\ UNCHANGED os_created
             /\ install_subclass_if_needed(c, h, r2, <<gc, gd>>, "create_dlg")

\* Edit::create, PolyOpts::Wnd arm (the WM_SETFONT it sends afterwards is one
\* of the messages Deliver hands to the window)
CreateWindow(c) ==
    /\ opts_id[c] = "Wnd"
    /\ \E r1 \in OsResults, r2 \in OsResults : create_window(c, r1, r2)
    /\ UNCHANGED <<parent_hwnd, fixed, subclass_events, os_destroyed, script, aside>>

\* Edit::create, PolyOpts::Dlg arm
CreateDlg(c) ==
    /\ opts_id[c] = "Dlg"
    /\ \E r1 \in OsResults, r2 \in OsResults : create_dlg(c, r1, r2)
    /\ UNCHANGED <<parent_hwnd, fixed, subclass_events, os_destroyed, script, aside>>

----------------------------------------------------------------------------
(* Subclass dispatcher *)

\* ProcessResult
NotHandled == [kind |-> "NotHandled", word |-> 0]
HandledWithRet(w) == [kind |-> "HandledWithRet", word |-> w]
HandledWithoutRet == [kind |-> "HandledWithoutRet", word |-> 0]

\* what a handler closure hands back when it runs: a word, or nothing
HandlerReturns ==
    {[some |-> TRUE, word |-> w] : w \in Words} \cup {[some |-> FALSE, word |-> 0]}

\* MsgEvents::process_effective_message: run the handler stored under the
\* message id; hret is what that handler returns
process_effective_message(table, msg, hret) ==
    IF lookup(table, msg) = NoHandler THEN NotHandled
    ELSE IF hret.some THEN HandledWithRet(hret.word)
    ELSE HandledWithoutRet

\* subclass_proc: is the subclass table consulted
table_consulted(ref) == ref # NullPtr /\ hwnd[ref] # NullHandle

\* subclass_proc: maybe_processed
maybe_processed(ref, msg, hret) ==
    IF table_consulted(ref)
    THEN process_effective_message(subclass_events[ref], msg, hret)
    ELSE NotHandled

\* the NCDESTROY test moved inside the test of the control pointer and handle
remove_needed_InsideTableTest(ref, msg) == table_consulted(ref) /\ msg = "NCDESTROY"

\* subclass_proc: is RemoveWindowSubclass to be called ("always check")
remove_needed(ref, msg) == msg = "NCDESTROY"

\* the subclass removed under the counter's start value instead of the id given
remove_id_Zero(subclass_id) == 0

\* subclass_proc: the id handed to RemoveWindowSubclass
remove_id(subclass_id) == subclass_id

\* the final match replying 0 to every handled message
proc_return_IgnoresWord(mp, dword) ==
    IF mp.kind = "NotHandled" THEN dword ELSE 0

\* subclass_proc: the final match; dword is what DefSubclassProc returns
proc_return(mp, dword) ==
    CASE mp.kind = "HandledWithRet" -> mp.word
      [] mp.kind = "HandledWithoutRet" -> 0
      [] mp.kind = "NotHandled" -> dword

\* subclass_proc: is DefSubclassProc called
def_called(mp) == mp.kind = "NotHandled"

\* OS: RemoveWindowSubclass(h, subclass_proc, id) succeeds when that subclass
\* is installed on the window, and then takes it out
OsInstalled(h, id) == \E s \in os_subclass : s.hwnd = h /\ s.id = id
OsRemove(h, id) == {s \in os_subclass : ~(s.hwnd = h /\ s.id = id)}

\* subclass_proc: does a handler of the subclass table run
handler_runs(ref, msg) ==
    table_consulted(ref) /\ lookup(subclass_events[ref], msg) # NoHandler

NoReturn == [some |-> FALSE, word |-> 0]

\* the subclass taken out before the table is consulted
proc_calls_RemoveFirst(run, rem, def) == rem \o run \o def

\* subclass_proc: the order of its three parts, the table (run), the
\* NCDESTROY test (rem) and the final match (def)
proc_calls(run, rem, def) == run \o rem \o def

\* NativeControlBase::subclass_proc, entered by op (an OS delivery or a direct
\* call) for the window of control c; hret is what the handler returns when one
\* runs, dword what DefSubclassProc returns when it is called
subclass_proc(h, msg, lparam, subclass_id, ref, op, c) ==
    \E hret \in IF handler_runs(ref, msg) THEN HandlerReturns ELSE {NoReturn} :
    LET mp == maybe_processed(ref, msg, hret) IN
    \E dword \in IF def_called(mp) THEN Words ELSE {0} :
    LET run == IF handler_runs(ref, msg)
               THEN <<Call("handler", h, msg, lparam, 0, ref,
                           IF hret.some THEN "some" ELSE "none", hret.word)>>
               ELSE <<>>
        rid == remove_id(subclass_id)
        rem == IF remove_needed(ref, msg)
               THEN <<Call("RemoveWindowSubclass", h, "", 0, rid, NullPtr,
                           IF OsInstalled(h, rid) THEN "ok" ELSE "err", 0)>>
               ELSE <<>>
        def == IF def_called(mp)
               THEN <<Call("DefSubclassProc", h, msg, lparam, 0, NullPtr, "ok", dword)>>
               ELSE <<>>
    IN  /\ os_subclass' = IF remove_needed(ref, msg) THEN OsRemove(h, rid) ELSE os_subclass
        /\ trace' = proc_calls(run, rem, def)
        /\ last' = Last(op, c, mp.kind, NoPanic, msg, lparam,
                        subclass_id, ref, proc_return(mp, dword))

\* OS: a message is delivered to the window of a created control. With a
\* subclass installed on the window the OS calls the dispatcher with the id and
\* ref_data given at install; without one the message goes to the window's own
\* procedure and the framework is not involved.
Deliver(c, msg, lparam) ==
    /\ hwnd[c] # NullHandle
    /\ os_destroyed' = IF msg = "NCDESTROY" THEN os_destroyed \cup {hwnd[c]}
                       ELSE os_destroyed
    /\ IF \E s \in os_subclass : s.hwnd = hwnd[c]
       THEN \E s \in os_subclass :
               /\ s.hwnd = hwnd[c]
               /\ subclass_proc(hwnd[c], msg, lparam, s.id, s.ref, "deliver", c)
       ELSE /\ last' = Last("wndproc", c, "ok", NoPanic, msg, lparam, 0, NullPtr, 0)
            /\ trace' = <<>>
            /\ UNCHANGED os_subclass
    /\ UNCHANGED <<parent_hwnd, fixed, hwnd, subclass_events,
                   BASE_SUBCLASS_ID, os_created, installs, aside>>

OsDeliver(c, msg, lparam) ==
    /\ Deliver(c, msg, lparam)
    /\ UNCHANGED script

\* The dispatcher is an extern "system" function: foreign code can call it with
\* any window, id and ref_data, a null ref_data and the address of a control
\* that is not created yet included.
DirectCall(c, h, msg, lparam, subclass_id, ref) ==
    /\ subclass_proc(h, msg, lparam, subclass_id, ref, "direct_call", c)
    /\ UNCHANGED <<parent_hwnd, fixed, hwnd, subclass_events,
                   BASE_SUBCLASS_ID, os_created, installs, os_destroyed, script, aside>>

----------------------------------------------------------------------------
(* Round trip: the deliveries CREATE, SIZE, NCDESTROY to a window, in this   *)
(* order, and up to MaxLate messages after them                              *)

MaxLate == 1
Script == <<"CREATE", "SIZE", "NCDESTROY">>

HandlerRuns(calls, at) ==
    [i \in 1..Len(SelectSeq(calls, LAMBDA e : e.call = "handler")) |->
        LET e == SelectSeq(calls, LAMBDA x : x.call = "handler")[i]
        IN  [msg |-> e.msg, lparam |-> e.lparam, at |-> at]]

ScriptDeliver(c, msg, lparam) ==
    LET k == Len(delivered[c]) IN
    /\ k < Len(Script) + MaxLate
    /\ k < Len(Script) => msg = Script[k + 1]
    /\ Deliver(c, msg, lparam)
    /\ delivered' = [delivered EXCEPT ![c] = Append(@, [msg |-> msg, lparam |-> lparam])]
    /\ ran' = [ran EXCEPT ![c] = @ \o HandlerRuns(trace', k + 1)]

Next ==
    \/ ParentCreate
    \/ \E c \in Ctrls : On(c)
    \/ \E c \in Ctrls : EditOn(c)
    \/ \E c \in Ctrls, ident \in RegIds, func \in Handlers : OnSubclass(c, ident, func)
    \/ \E c \in Ctrls : CreateWindow(c)
    \/ \E c \in Ctrls : CreateDlg(c)
    \/ \E c \in Ctrls, msg \in MsgIds : \E lparam \in LParamsOf(msg) :
          OsDeliver(c, msg, lparam)

Spec == Init /\ [][Next]_vars

\* the dispatcher called for one window, by the OS and by foreign code
ProcCtrls == {"edit1"}
SubclassIds == 0..Cardinality(ProcCtrls)
\* the window of a control: the one it holds, or the one it is going to hold
HandleFor(c) ==
    IF hwnd[c] # NullHandle THEN hwnd[c]
    ELSE IF opts_id[c] = "Wnd" THEN WndHandle(c, 1) ELSE ItemHandle(c)

NextProc ==
    \/ ParentCreate
    \/ \E c \in ProcCtrls, ident \in RegIds, func \in Handlers : OnSubclass(c, ident, func)
    \/ \E c \in ProcCtrls : CreateWindow(c)
    \/ \E c \in ProcCtrls : CreateDlg(c)
    \/ \E c \in ProcCtrls, msg \in MsgIds : \E lparam \in LParamsOf(msg) :
          OsDeliver(c, msg, lparam)
    \/ \E c \in ProcCtrls, msg \in MsgIds, id \in SubclassIds :
          \E ref \in {PtrOf(c), NullPtr}, lparam \in LParamsOf(msg) :
             DirectCall(c, HandleFor(c), msg, lparam, id, ref)

SpecProc == Init /\ [][NextProc]_vars

NextRoundTrip ==
    \/ ParentCreate
    \/ \E c \in ProcCtrls, ident \in RegIds, func \in Handlers : OnSubclass(c, ident, func)
    \/ \E c \in ProcCtrls : CreateWindow(c)
    \/ \E c \in ProcCtrls : CreateDlg(c)
    \/ \E c \in ProcCtrls, msg \in MsgIds : \E lparam \in LParamsOf(msg) :
          ScriptDeliver(c, msg, lparam)

SpecRoundTrip == Init /\ [][NextRoundTrip]_vars

\* registration with two closures told apart, so that a table entry that
\* changes hands is visible
EventHandlers == {"f", "g"}

NextEvents ==
    \/ ParentCreate
    \/ \E c \in Ctrls, ident \in RegIds, func \in EventHandlers :
          OnSubclass(c, ident, func)
    \/ \E c \in Ctrls : CreateWindow(c)
    \/ \E c \in Ctrls : CreateDlg(c)

SpecEvents == Init /\ [][NextEvents]_vars
----------------------------------------------------------------------------
(* Claims *)

----------------------------------------------------------------------------
(* DialogModal: the dialog procedure and show_modal *)

\* i32 `/`: the quotient is truncated towards zero
rust_div(a, b) == IF a >= 0 THEN a \div b ELSE -((-a) \div b)

Rect(l, t, r, b) == [left |-> l, top |-> t, right |-> r, bottom |-> b]
\* OS: where the dialog and its owner are when INITDIALOG arrives
DlgRects == {Rect(0, 0, 200, 100), Rect(30, 40, 131, 91)}
OwnerRects == {Rect(0, 0, 400, 300), Rect(-7, 3, 100, 50)}

\* center_in_parent: the position handed to SetWindowPos
center_x(rc, rc_parent) ==
    rc_parent.left + rust_div(rc_parent.right - rc_parent.left, 2)
        - rust_div(rc.right - rc.left, 2)
center_y(rc, rc_parent) ==
    rc_parent.top + rust_div(rc_parent.bottom - rc_parent.top, 2)
        - rust_div(rc.bottom - rc.top, 2)

\* what the environment decides while a closure runs: which OS call of
\* center_in_parent fails (0: none), the two rectangles, what EndDialog
\* returns, what a user's handler returns
Env(fail, rc, rc_parent, os, fret) ==
    [fail |-> fail, rc |-> rc, rc_parent |-> rc_parent, os |-> os, fret |-> fret]
NoRect == Rect(0, 0, 0, 0)
NoEnv == Env(0, NoRect, NoRect, "ok", Unit)

EnvsFor(entry) ==
    CASE entry.func = "center_in_parent" ->
            {Env(0, rc, rp, "ok", Unit) : rc \in DlgRects, rp \in OwnerRects}
            \cup {Env(f, NoRect, NoRect, "ok", Unit) : f \in 1..3}
            \cup {Env(4, rc, rp, "ok", Unit) : rc \in DlgRects, rp \in OwnerRects}
      [] entry.func = "EndDialog" -> {Env(0, NoRect, NoRect, r, Unit) : r \in OsResults}
      [] entry = NoClosure -> {NoEnv}
      [] OTHER -> {Env(0, NoRect, NoRect, "ok", fr) : fr \in FuncReturns(RetTypeOf(entry.reg))}

OsCall(name, h, res) == [call |-> name, hwnd |-> h, res |-> res]
ResAt(env, n) == IF env.fail = n THEN "err" ELSE "ok"

\* DialogModal::center_in_parent: its OS calls, and whether it returns Ok
center_in_parent(h, env) ==
    LET c1 == OsCall("GetWindowRect", h, ResAt(env, 1))
        c2 == OsCall("GetParent", h, ResAt(env, 2))
        c3 == OsCall("GetWindowRect", OwnerHandle, ResAt(env, 3))
        c4 == [call |-> "SetWindowPos", hwnd |-> h, res |-> ResAt(env, 4),
               x |-> center_x(env.rc, env.rc_parent),
               y |-> center_y(env.rc, env.rc_parent),
               rc |-> env.rc, rc_parent |-> env.rc_parent]
    IN  CASE env.fail = 1 -> [calls |-> <<c1>>, ok |-> FALSE]
          [] env.fail = 2 -> [calls |-> <<c1, c2>>, ok |-> FALSE]
          [] env.fail = 3 -> [calls |-> <<c1, c2, c3>>, ok |-> FALSE]
          [] env.fail = 4 -> [calls |-> <<c1, c2, c3, c4>>, ok |-> FALSE]
          [] OTHER -> [calls |-> <<c1, c2, c3, c4>>, ok |-> TRUE]

FuncRun(calls, panic, fret, ended) ==
    [calls |-> calls, panic |-> panic, fret |-> fret, ended |-> ended]

\* the INITDIALOG closure answering false
init_dialog_func_RepliesFalse(h, env) ==
    LET c == center_in_parent(h, env) IN
    IF c.ok THEN FuncRun(c.calls, NoPanic, Ret("bool", FALSE, <<>>), FALSE)
    ELSE FuncRun(c.calls, PanicUnwrap, Unit, FALSE)

\* default_message_handlers: `move |_| { self2.center_in_parent().unwrap(); true }`
init_dialog_func(h, env) ==
    LET c == center_in_parent(h, env) IN
    IF c.ok THEN FuncRun(c.calls, NoPanic, Ret("bool", TRUE, <<>>), FALSE)
    ELSE FuncRun(c.calls, PanicUnwrap, Unit, FALSE)

\* default_message_handlers: `u16::from(co::DLGID::CANCEL) as isize`
close_result == DLGID_CANCEL

\* the CLOSE closure with `.unwrap()` on what EndDialog returns
close_func_Unwrap(h, env) ==
    FuncRun(<<[call |-> "EndDialog", hwnd |-> h, res |-> env.os,
               result |-> close_result]>>,
            IF env.os = "ok" THEN NoPanic ELSE PanicUnwrap, Unit, env.os = "ok")

\* default_message_handlers: `move || { self2.hwnd_ref().EndDialog(..).ok(); }`
close_func(h, env) ==
    FuncRun(<<[call |-> "EndDialog", hwnd |-> h, res |-> env.os,
               result |-> close_result]>>,
            NoPanic, Unit, env.os = "ok")

\* the handler a closure moved in, run on the payload m
run_func(func, h, m, env) ==
    CASE func = "center_in_parent" -> init_dialog_func(h, env)
      [] func = "EndDialog" -> close_func(h, env)
      [] OTHER -> FuncRun(<<>>, NoPanic, env.fret, FALSE)

ClosureRun(calls, panic, word, ended) ==
    [calls |-> calls, panic |-> panic, reply |-> word, ended |-> ended]
NoRun == ClosureRun(<<>>, NoPanic, <<>>, FALSE)

\* wm_ret_isize! / wm_ret_convt!: the closure stored in a table, run on the
\* decoded message
run_closure(tbl, entry, h, m, env) ==
    IF ~pattern_matches(entry.reg, m)
    THEN ClosureRun(<<>>, PanicInternal, <<>>, FALSE)
    ELSE LET f == run_func(entry.func, h, m, env) IN
         IF f.panic # NoPanic THEN ClosureRun(f.calls, f.panic, <<>>, FALSE)
         ELSE ClosureRun(
                 f.calls \o <<[call |-> "closure", table |-> tbl, reg |-> entry.reg,
                               func |-> entry.func, m |-> m, fret |-> f.fret,
                               reply |-> closure_reply(entry.reg, f.fret)]>>,
                 NoPanic, closure_reply(entry.reg, f.fret), f.ended)

\* the dialog procedure: the privileged table first, then the user table, whose
\* reply replaces the privileged one; FALSE when neither has a handler
dlg_proc(h, ident, wparam, lparam, op) ==
    LET m == Decode(ident, wparam, lparam)
        pe == privileged_events[ident]
        ue == user_events[ident]
    IN  \E envP \in EnvsFor(pe), envU \in EnvsFor(ue) :
        LET a == IF pe # NoClosure THEN run_closure("privileged", pe, h, m, envP)
                 ELSE NoRun
            b == IF a.panic = NoPanic /\ ue # NoClosure
                 THEN run_closure("user", ue, h, m, envU) ELSE NoRun
            panic == IF a.panic # NoPanic THEN a.panic ELSE b.panic
        IN  /\ trace' = a.calls \o b.calls
            /\ last' = Last(op, "", IF panic = NoPanic THEN "ok" ELSE "panic", panic,
                            ident, lparam, wparam, NullPtr, 0)
            /\ reply' = IF panic # NoPanic THEN <<>>
                        ELSE IF ue # NoClosure THEN b.reply
                        ELSE IF pe # NoClosure THEN a.reply
                        ELSE ToBits(0, IsizeBits)
            /\ modal' = IF panic # NoPanic THEN [state |-> "panicked", result |-> 0]
                        ELSE IF a.ended \/ b.ended
                        THEN [state |-> "returned", result |-> close_result]
                        ELSE [state |-> "running", result |-> 0]

\* the controls, but for the subclass id counter
controls_but_counter == <<parent_hwnd, fixed, hwnd, subclass_events,
                          os_subclass, os_destroyed, os_created, installs, script>>
controls == <<controls_but_counter, BASE_SUBCLASS_ID>>

\* a typed registration that stores its closure under any id
HostWm_AnyId(reg, ident, func) ==
    /\ modal.state # "panicked"
    /\ user_events' = wm(user_events, ident, Closure(reg, func))
    /\ last' = Last(reg, "", "ok", NoPanic, ident, 0, 0, NullPtr, 0)
    /\ trace' = <<>>
    /\ UNCHANGED <<dlg_hwnd, privileged_events, modal, reply, controls,
                   registry, threads, elsewhere>>

\* a registration on the dialog's user table through a reference to the table
\* (one taken from user_events_ref, a clone of the table, the pointer a
\* StatusBarEvents keeps): wm_xxx(func) or wm(ident, func). Events holds the
\* map only, so nothing here can look at the window
HostWm(reg, ident, func) ==
    /\ modal.state # "panicked"
    /\ reg # "wm" => ident = RegOf(reg).ident
    /\ user_events' = wm(user_events, ident, Closure(reg, func))
    /\ last' = Last(reg, "", "ok", NoPanic, ident, 0, 0, NullPtr, 0)
    /\ trace' = <<>>
    /\ UNCHANGED <<dlg_hwnd, privileged_events, modal, reply, controls,
                   registry, threads, elsewhere>>

\* DialogModal::show_modal up to the modal loop: DialogBoxParam makes the
\* window and sends INITDIALOG to the dialog procedure
ShowModal ==
    /\ modal.state = "idle"
    /\ \E r \in OsResults :
          IF r = "err"
          THEN /\ modal' = [state |-> "failed", result |-> 0]
               /\ last' = Last("show_modal", "", "err", NoPanic, "", 0, 0, NullPtr, 0)
               /\ trace' = <<OsCall("DialogBoxParam", OwnerHandle, "err")>>
               /\ UNCHANGED <<dlg_hwnd, reply>>
          ELSE /\ dlg_hwnd' = DlgHandle
               /\ dlg_proc(DlgHandle, "INITDIALOG", 0, 0, "show_modal")
    /\ UNCHANGED <<user_events, privileged_events, controls, registry, threads, elsewhere>>

\* OS: a message for the dialog while show_modal runs the modal loop
HostDeliver(ident, wparam, lparam) ==
    /\ modal.state = "running"
    /\ dlg_proc(dlg_hwnd, ident, wparam, lparam, "dlg_proc")
    /\ UNCHANGED <<dlg_hwnd, user_events, privileged_events, controls,
                   registry, threads, elsewhere>>

\* the controls at rest
ControlsIdle ==
    /\ parent_hwnd = NullHandle
    /\ parent_atom = WC_DIALOG
    /\ hwnd = [c \in Ctrls |-> NullHandle]
    /\ opts_id = [c \in Ctrls |-> "Dlg"]
    /\ os_created = [c \in Ctrls |-> 0]
    /\ subclass_events = [c \in Ctrls |-> EmptyTable]
    /\ BASE_SUBCLASS_ID = 0
    /\ os_subclass = {}
    /\ os_destroyed = {}
    /\ installs = [c \in Ctrls |-> <<>>]
    /\ last = Last("new", "", "ok", NoPanic, "", 0, 0, NullPtr, 0)
    /\ trace = <<>>
    /\ delivered = [c \in Ctrls |-> <<>>]
    /\ ran = [c \in Ctrls |-> <<>>]

\* the handlers a user registers on the dialog in this specification
HostRegs == {"wm_close", "wm_init_dialog", "wm_size", "wm"}
HostIds == {"INITDIALOG", "CLOSE", "SIZE"}
WParams == {0, 1}

InitHost == ControlsIdle /\ DialogModal_new /\ NoGuards /\ ThreadsIdle /\ ElsewhereIdle

NextHost ==
    \/ \E reg \in HostRegs, ident \in HostIds, func \in Handlers :
          HostWm(reg, ident, func)
    \/ ShowModal
    \/ \E ident \in HostIds \ {"INITDIALOG"}, wparam \in WParams :
          \E lparam \in LParamsOf(ident) : HostDeliver(ident, wparam, lparam)

SpecHost == InitHost /\ [][NextHost]_vars

\* every typed registration and the untyped one, on a dialog that holds at
\* most MaxRegs handlers of the user
MaxRegs == 1
UserRegs(table) == Cardinality({id \in WmIds : table[id].func \in Handlers})

TypedWm(reg, ident, func) ==
    /\ UserRegs(wm(user_events, ident, Closure(reg, func))) <= MaxRegs
    /\ HostWm(reg, ident, func)

NextTyped ==
    \/ \E reg \in RegNames \cup {"wm"}, ident \in WmIds, func \in Handlers :
          TypedWm(reg, ident, func)
    \/ ShowModal
    \/ \E ident \in WmIds \ {"INITDIALOG"}, wparam \in WParams :
          \E lparam \in LParamsOf(ident) : HostDeliver(ident, wparam, lparam)

SpecTyped == InitHost /\ [][NextTyped]_vars

----------------------------------------------------------------------------
(* HkeyGuard: construction, borrowing, drop *)

\* a guard is made for each handle
InitGuards ==
    /\ ControlsIdle /\ DialogModal_new /\ ThreadsIdle /\ ElsewhereIdle
    /\ hkey \in [Guards -> RawHandles]
    /\ dropped = {}
    /\ reg_closed = <<>>

\* Deref for HkeyGuard: the handle is lent, the guard stays as it is
GuardDeref(g) ==
    /\ g \notin dropped
    /\ last' = Last("deref", g, "ok", NoPanic, "", 0, 0, NullPtr, 0)
    /\ trace' = <<>>
    /\ UNCHANGED <<registry, controls, host, threads, elsewhere>>

\* Drop for HkeyGuard; r is what RegCloseKey returns, which nothing reads
GuardDrop(g, r) ==
    LET h == hkey[g]
        closes == as_opt(h) = "Some" /\ outside_predefined(h)
        call == [call |-> "RegCloseKey", guard |-> g, hkey |-> h, res |-> r]
    IN  /\ g \notin dropped
        /\ dropped' = dropped \cup {g}
        /\ reg_closed' = IF closes THEN Append(reg_closed, call) ELSE reg_closed
        /\ trace' = IF closes THEN <<call>> ELSE <<>>
        /\ last' = Last("drop", g, "ok", NoPanic, "", 0, 0, NullPtr, 0)
        /\ UNCHANGED <<hkey, controls, host, threads, elsewhere>>

NextGuards ==
    \/ \E g \in Guards : GuardDeref(g)
    \/ \E g \in Guards, r \in OsResults : GuardDrop(g, r)

SpecGuards == InitGuards /\ [][NextGuards]_vars

----------------------------------------------------------------------------
(* install_subclass_if_needed on two UI threads. BASE_SUBCLASS_ID is a      *)
(* `static mut` read and written without synchronisation, so                *)
(* `BASE_SUBCLASS_ID += 1; BASE_SUBCLASS_ID` is a read, a write and the use  *)
(* of the result, and the steps of the threads interleave. The build may    *)
(* keep the sum in a register or read the static again for the result.      *)

\* the control of thread t has no subclass events: nothing is installed
ThreadSkip(t) ==
    /\ pc[t] = "idle"
    /\ pc' = [pc EXCEPT ![t] = "skipped"]
    /\ last' = Last("skip", t, "ok", NoPanic, "", 0, 0, NullPtr, 0)
    /\ trace' = <<>>
    /\ UNCHANGED <<BASE_SUBCLASS_ID, tmp, installed_id, controls_but_counter, host, registry, elsewhere>>

\* the read of `BASE_SUBCLASS_ID += 1`
ThreadLoad(t) ==
    /\ pc[t] = "idle"
    /\ tmp' = [tmp EXCEPT ![t] = BASE_SUBCLASS_ID]
    /\ pc' = [pc EXCEPT ![t] = "loaded"]
    /\ last' = Last("load", t, "ok", NoPanic, "", 0, 0, NullPtr, 0)
    /\ trace' = <<>>
    /\ UNCHANGED <<BASE_SUBCLASS_ID, installed_id, controls_but_counter, host, registry, elsewhere>>

\* the write of `BASE_SUBCLASS_ID += 1`
ThreadStore(t) ==
    /\ pc[t] = "loaded"
    /\ BASE_SUBCLASS_ID' = bump(tmp[t])
    /\ pc' = [pc EXCEPT ![t] = "stored"]
    /\ last' = Last("store", t, "ok", NoPanic, "", 0, 0, NullPtr, 0)
    /\ trace' = <<>>
    /\ UNCHANGED <<tmp, installed_id, controls_but_counter, host, registry, elsewhere>>

\* `let subclass_id = .. BASE_SUBCLASS_ID`: the value of the block, either
\* the sum the thread computed or what the static holds by now
ThreadRead(t) ==
    /\ pc[t] = "stored"
    /\ \E id \in {bump(tmp[t]), BASE_SUBCLASS_ID} :
          /\ installed_id' = [installed_id EXCEPT ![t] = id]
          /\ last' = Last("read", t, "ok", NoPanic, "", 0, id, NullPtr, 0)
    /\ trace' = <<>>
    /\ pc' = [pc EXCEPT ![t] = "read"]
    /\ UNCHANGED <<BASE_SUBCLASS_ID, tmp, controls_but_counter, host, registry, elsewhere>>

\* SetWindowSubclass with subclass_id; r is what the OS returns
ThreadInstall(t, r) ==
    /\ pc[t] = "read"
    /\ trace' = <<Call("SetWindowSubclass", "hwnd:" \o t, "", 0, installed_id[t], t, r, 0)>>
    /\ last' = Last("install", t, r, NoPanic, "", 0, installed_id[t], NullPtr, 0)
    /\ pc' = [pc EXCEPT ![t] = "done"]
    /\ UNCHANGED <<BASE_SUBCLASS_ID, tmp, installed_id, controls_but_counter, host, registry, elsewhere>>

InitThreads == ControlsIdle /\ DialogModal_new /\ NoGuards /\ ThreadsIdle /\ ElsewhereIdle

NextThreads ==
    \/ \E t \in Threads : ThreadSkip(t)
    \/ \E t \in Threads : ThreadLoad(t)
    \/ \E t \in Threads : ThreadStore(t)
    \/ \E t \in Threads : ThreadRead(t)
    \/ \E t \in Threads, r \in OsResults : ThreadInstall(t, r)

SpecThreads == InitThreads /\ [][NextThreads]_vars

----------------------------------------------------------------------------
(* IDXGIObject::GetParent and the drop of the wrappers *)

\* the queries one object is asked in this specification
MaxQueries == 2
Queries == SelectSeq(com_calls, LAMBDA e : e.call = "QueryInterface")

\* an IDXGIObject was acquired
InitCom ==
    /\ ControlsIdle /\ DialogModal_new /\ NoGuards /\ ThreadsIdle /\ NoTables /\ EditsBuilt
    /\ com_ptr \in {[w \in ComWrappers |-> IF w = "object" THEN p ELSE ComNull] : p \in ComPtrs}
    /\ com_alive = {"object"}
    /\ com_calls = <<>>
    /\ com_result = NoComResult

\* GetParent::<T> on the object. The object answers hr and, for S_OK, writes
\* the pointer out through `queried.as_mut()`; a failed query leaves the
\* pointer null. An Err drops `queried` at the end of the call.
GetParent(T, hr, out) ==
    LET query == ComCall("QueryInterface", com_ptr["object"], query_iid("IDXGIObject", T), hr)
        res == ok_to_hrresult(hr)
        calls == IF res.kind = "Ok" THEN <<query>> ELSE <<query>> \o release_calls(out)
    IN  /\ "object" \in com_alive
        /\ "queried" \notin com_alive
        /\ Len(Queries) < MaxQueries
        /\ (hr = S_OK) = (out # ComNull)
        /\ com_calls' = com_calls \o calls
        /\ trace' = calls
        /\ com_ptr' = [com_ptr EXCEPT !["queried"] = out]
        /\ com_alive' = IF res.kind = "Ok" THEN com_alive \cup {"queried"} ELSE com_alive
        /\ com_result' = IF res.kind = "Ok"
                         THEN ComResult("Ok", S_OK, out, IID(T))
                         ELSE ComResult("Err", res.hr, ComNull, IID(T))
        /\ last' = Last("GetParent", "object", "ok", NoPanic, T, 0, 0, NullPtr, 0)
        /\ UNCHANGED <<controls, host, registry, threads, tables, edits>>

\* Drop of a wrapper
ComDrop(w) ==
    /\ w \in com_alive
    /\ com_alive' = com_alive \ {w}
    /\ com_calls' = com_calls \o release_calls(com_ptr[w])
    /\ trace' = release_calls(com_ptr[w])
    /\ last' = Last("drop", w, "ok", NoPanic, "", 0, 0, NullPtr, 0)
    /\ UNCHANGED <<com_ptr, com_result, controls, host, registry, threads, tables, edits>>

NextCom ==
    \/ \E T \in Interfaces, hr \in HResults, out \in ComPtrs \cup {ComNull} :
          GetParent(T, hr, out)
    \/ \E w \in ComWrappers : ComDrop(w)

SpecCom == InitCom /\ [][NextCom]_vars

----------------------------------------------------------------------------
(* Events objects: new, clone, drop, and wm through any of them *)

\* Events::new: a map is allocated at a free address
EventsNew(e, addr) ==
    /\ events_objs[e].state = "none"
    /\ msgs_heap[addr].state = "free"
    /\ events_objs' = [events_objs EXCEPT ![e] = Events_new(addr)]
    /\ msgs_heap' = [msgs_heap EXCEPT ![addr] = Block("allocated", EmptyTable, 0, FALSE)]
    /\ last' = Last("new", e, "ok", NoPanic, "", 0, 0, NullPtr, 0)
    /\ trace' = <<>>
    /\ UNCHANGED <<controls, host, registry, threads, interfaces, edits>>

\* clone of the object src into e
EventsClone(src, e) ==
    /\ events_objs[src].state = "live"
    /\ events_objs[e].state = "none"
    /\ events_objs' = [events_objs EXCEPT ![e] = Events_clone(events_objs[src])]
    /\ last' = Last("clone", e, "ok", NoPanic, "", 0, 0, src, 0)
    /\ trace' = <<>>
    /\ UNCHANGED <<msgs_heap, controls, host, registry, threads, interfaces, edits>>

\* drop of the object e: the original gives the map back to the allocator
EventsDrop(e) ==
    LET self == events_objs[e]
        blk == msgs_heap[self.msgs]
    IN  /\ self.state = "live"
        /\ events_objs' = [events_objs EXCEPT ![e].state = "dropped"]
        /\ IF Events_drop_releases(self)
           THEN /\ msgs_heap' = [msgs_heap EXCEPT ![self.msgs] =
                                    Block("released", blk.map, blk.releases + 1, blk.stale)]
                /\ trace' = <<[call |-> "Box::from_raw", addr |-> self.msgs]>>
           ELSE /\ UNCHANGED msgs_heap
                /\ trace' = <<>>
        /\ last' = Last("drop", e, "ok", NoPanic, "", 0, 0, NullPtr, 0)
        /\ UNCHANGED <<controls, host, registry, threads, interfaces, edits>>

\* Events::wm through the object e: the pointer is followed and the map
\* inserted into. When the map was released the pointer dangles and the
\* insert writes to memory the allocator owns; what the block then holds is
\* not determined.
EventsWm(e, ident, func) ==
    LET self == events_objs[e]
        blk == msgs_heap[self.msgs]
    IN  /\ self.state = "live"
        /\ IF blk.state = "allocated"
           THEN /\ msgs_heap' = [msgs_heap EXCEPT ![self.msgs].map = wm(blk.map, ident, func)]
                /\ last' = Last("wm", e, "ok", NoPanic, ident, 0, 0, func, 0)
           ELSE /\ \E m \in {blk.map, wm(blk.map, ident, func)} :
                      msgs_heap' = [msgs_heap EXCEPT ![self.msgs] =
                                       Block(blk.state, m, blk.releases, TRUE)]
                /\ last' = Last("wm", e, "dangling", NoPanic, ident, 0, 0, func, 0)
        /\ trace' = <<>>
        /\ UNCHANGED <<events_objs, controls, host, registry, threads, interfaces, edits>>

InitTables == ControlsIdle /\ DialogModal_new /\ NoGuards /\ ThreadsIdle /\ ElsewhereIdle

NextTables ==
    \/ \E e \in EvObjs, addr \in MapAddrs : EventsNew(e, addr)
    \/ \E src, e \in EvObjs : EventsClone(src, e)
    \/ \E e \in EvObjs : EventsDrop(e)
    \/ \E e \in EvObjs, ident \in RegIds, func \in Handlers : EventsWm(e, ident, func)

SpecTables == InitTables /\ [][NextTables]_vars

----------------------------------------------------------------------------
(* Edit::new, then Edit::create under a parent *)

\* no control was built yet
InitEdit ==
    /\ ControlsIdle /\ DialogModal_new /\ NoGuards /\ ThreadsIdle
    /\ NoInterfaces /\ NoTables
    /\ constructed = {}
    /\ opts_given = [c \in Ctrls |-> 0]
    /\ opts_ctrl_id = [c \in Ctrls |-> 0]
    /\ parent_events_id = [c \in Ctrls |-> 0]
    /\ BASE_CTRL_ID = AutoBase

\* Edit::new(parent, opts) with opts.ctrl_id = given: define_ctrl_id, then
\* the id goes into poly_opts and into EditEvents::new. auto_ctrl_id hands
\* out the counter's value and advances the counter.
EditNew(c, given) ==
    LET id == define_ctrl_id(given, BASE_CTRL_ID) IN
    /\ c \notin constructed
    /\ constructed' = constructed \cup {c}
    /\ BASE_CTRL_ID' = IF given = 0 THEN (BASE_CTRL_ID + 1) % U16 ELSE BASE_CTRL_ID
    /\ opts_given' = [opts_given EXCEPT ![c] = given]
    /\ opts_ctrl_id' = [opts_ctrl_id EXCEPT ![c] = id]
    /\ parent_events_id' = [parent_events_id EXCEPT ![c] = id]
    /\ opts_id' = [opts_id EXCEPT ![c] = "Wnd"]
    /\ last' = Last("Edit::new", c, "ok", NoPanic, "", 0, given, NullPtr, 0)
    /\ trace' = <<>>
    /\ UNCHANGED <<parent_hwnd, parent_atom, hwnd, subclass_events, BASE_SUBCLASS_ID,
                   os_subclass, os_destroyed, os_created, installs, script,
                   host, registry, threads, interfaces, tables>>

\* Edit::create of a control that was built
EditCreate(c) ==
    /\ c \in constructed
    /\ CreateWindow(c)

NextEdit ==
    \/ ParentCreate
    \/ \E c \in Ctrls, given \in OptIds : EditNew(c, given)
    \/ \E c \in Ctrls : EditCreate(c)

SpecEdit == InitEdit /\ [][NextEdit]_vars

----------------------------------------------------------------------------
Registrations == {"on", "Edit::on", "on_subclass"}
Creations == {"create_window", "create_dlg"}

\* C1: asking a control for its event table (on) or its subclass event table
\* (on_subclass) panics whenever the control's handle or the parent's handle is
\* non-null, and returns the table only when both are null.
C1_RegistrationOnlyBeforeCreation ==
    last.op \in Registrations =>
        IF hwnd[last.ctrl] # NullHandle \/ parent_hwnd # NullHandle
        THEN last.outcome = "panic" /\ last.panic # NoPanic
        ELSE last.outcome = "ok" /\ last.panic = NoPanic

\* a control that is not created is asked for its subclass table after its
\* parent was created
C1_Witness ==
    /\ last.op = "on_subclass"
    /\ last.panic = PanicSubParentCreated
    /\ hwnd[last.ctrl] = NullHandle

\* C2: create_window and create_dlg panic when the control's handle is already
\* non-null or the parent's handle is null: no OS call is issued and the
\* control's handle, the subclass counter and the installed subclasses stay.
C2_CreatePreconditionPanics ==
    [][\A c \in Ctrls :
          (/\ last'.op \in Creations
           /\ last'.ctrl = c
           /\ (hwnd[c] # NullHandle \/ parent_hwnd = NullHandle))
          => (/\ last'.outcome = "panic"
              /\ last'.panic = (IF hwnd[c] # NullHandle THEN PanicTwice ELSE PanicNoParent)
              /\ trace' = <<>>
              /\ hwnd'[c] = hwnd[c]
              /\ BASE_SUBCLASS_ID' = BASE_SUBCLASS_ID
              /\ os_subclass' = os_subclass)]_vars

\* a created control is created again
C2_Witness ==
    /\ last.op \in Creations
    /\ last.panic = PanicTwice
    /\ hwnd[last.ctrl] # NullHandle

\* C3: a control's handle is null at construction, is written only by the
\* creation routine, and once non-null keeps its value for good.
C3_HandleWrittenOnce ==
    /\ \A c \in Ctrls : hwnd[c] = NullHandle
    /\ [][\A c \in Ctrls :
             /\ hwnd[c] # NullHandle => hwnd'[c] = hwnd[c]
             /\ hwnd'[c] # hwnd[c] => last'.op \in Creations /\ last'.ctrl = c]_vars

\* the dispatcher of a created control was handed NCDESTROY
C3_Witness ==
    /\ last.op = "deliver"
    /\ last.msg = "NCDESTROY"
    /\ hwnd[last.ctrl] # NullHandle

\* C4: whenever create_window or create_dlg returns an error (CreateWindowEx,
\* GetDlgItem or SetWindowSubclass fails) the control's handle is still null.
C4_ErrorLeavesHandleNull ==
    (last.op \in Creations /\ last.outcome = "err") => hwnd[last.ctrl] = NullHandle

\* C5: create_dlg on a created parent whose class atom is not WC_DIALOG panics
\* with the "not a dialog" message, calls neither GetDlgItem nor
\* SetWindowSubclass and leaves the control's handle null.
C5_NotADialogPanics ==
    [][\A c \in Ctrls :
          (/\ last'.op = "create_dlg"
           /\ last'.ctrl = c
           /\ parent_hwnd # NullHandle
           /\ parent_atom # WC_DIALOG)
          => (/\ last'.outcome = "panic"
              /\ last'.panic = PanicNotDialog
              /\ \A i \in 1..Len(trace') :
                    trace'[i].call \notin {"GetDlgItem", "SetWindowSubclass"}
              /\ hwnd'[c] = NullHandle)]_vars

\* a control is attached to a created parent that is no dialog
C5_Witness ==
    /\ last.op = "create_dlg"
    /\ last.panic = PanicNotDialog
    /\ parent_atom # WC_DIALOG
    /\ Len(trace) = 1

\* C6: SetWindowSubclass is called for a control never before it holds a
\* handle, once if its subclass table is non-empty when creation obtains the
\* handle and not at all if it is empty, and never a second time.
C6_SubclassInstalledOnce ==
    \A c \in Ctrls :
        /\ Len(installs[c]) <= 1
        /\ hwnd[c] = NullHandle => installs[c] = <<>>
        /\ hwnd[c] # NullHandle =>
              (Len(installs[c]) = 1 <=> ~is_empty(subclass_events[c]))
        /\ (last.op \in Creations /\ last.ctrl = c) =>
              \A i \in 1..Len(trace) :
                 trace[i].call = "SetWindowSubclass" =>
                    /\ trace[i].hwnd = hwnd[c]
                    /\ hwnd[c] # NullHandle
                    /\ installs[c] = <<[id |-> trace[i].id, res |-> trace[i].res]>>

\* two created controls, one with subclass events and one without
C6_Witness ==
    \E c, d \in Ctrls :
        /\ hwnd[c] # NullHandle /\ Len(installs[c]) = 1
        /\ hwnd[d] # NullHandle /\ installs[d] = <<>>
Dispatches == {"deliver", "direct_call"}

\* C7: whenever the subclass dispatcher receives NCDESTROY it calls
\* RemoveWindowSubclass exactly once, for its window and with the subclass id
\* it was entered with (for an OS delivery the id used at install), whatever
\* the subclass table holds and whether or not the control pointer or handle
\* is null; the call's result does not change how the dispatcher ends. For any
\* other message it never calls RemoveWindowSubclass.
C7_RemoveOnNcDestroy ==
    last.op \in Dispatches =>
        LET rems == Calls("RemoveWindowSubclass") IN
        IF last.msg = "NCDESTROY"
        THEN /\ Len(rems) = 1
             /\ rems[1].hwnd = HandleFor(last.ctrl)
             /\ rems[1].id = last.id
             /\ last.op = "deliver" =>
                   /\ installs[last.ctrl] = <<[id |-> rems[1].id, res |-> "ok"]>>
                   /\ rems[1].res = "ok"
             /\ ~OsInstalled(HandleFor(last.ctrl), last.id)
             /\ last.outcome \in {"NotHandled", "HandledWithRet", "HandledWithoutRet"}
        ELSE rems = <<>>

\* the dispatcher was called with a null control pointer and NCDESTROY for a
\* subclass that is not installed: the removal fails and the call still returns
C7_Witness ==
    /\ last.op = "direct_call"
    /\ last.msg = "NCDESTROY"
    /\ last.ref = NullPtr
    /\ Len(Calls("RemoveWindowSubclass")) = 1
    /\ Calls("RemoveWindowSubclass")[1].res = "err"
    /\ last.outcome = "NotHandled"

\* C8: the subclass dispatcher returns the handler's word when the table's
\* result is HandledWithRet(word), 0 when it is HandledWithoutRet, and what
\* DefSubclassProc returns when it is NotHandled; DefSubclassProc is called
\* once per message when the result is NotHandled and not at all otherwise.
C8_DispatcherReturn ==
    last.op \in Dispatches =>
        LET runs == Calls("handler")
            defs == Calls("DefSubclassProc")
        IN  /\ Len(runs) <= 1
            /\ last.outcome = "HandledWithRet" =>
                  /\ Len(runs) = 1 /\ runs[1].res = "some"
                  /\ last.ret = runs[1].word
                  /\ defs = <<>>
            /\ last.outcome = "HandledWithoutRet" =>
                  /\ Len(runs) = 1 /\ runs[1].res = "none"
                  /\ last.ret = 0
                  /\ defs = <<>>
            /\ last.outcome = "NotHandled" =>
                  /\ runs = <<>>
                  /\ Len(defs) = 1
                  /\ last.ret = defs[1].word
            /\ last.outcome \in {"NotHandled", "HandledWithRet", "HandledWithoutRet"}

\* a handler returned a word other than 0 and the dispatcher returned it
C8_Witness ==
    /\ last.op \in Dispatches
    /\ last.outcome = "HandledWithRet"
    /\ last.ret = -1
    /\ Calls("DefSubclassProc") = <<>>

\* C9: for a control with a subclass SIZE handler whose window is delivered
\* CREATE, SIZE(w, h), NCDESTROY: the handler runs exactly once, with (w, h);
\* RemoveWindowSubclass is observed on NCDESTROY; and no subclass handler of
\* the control runs for a message delivered to the window after NCDESTROY.
C9_SubclassRoundTrip ==
    \A c \in Ctrls :
        (/\ Len(delivered[c]) >= Len(Script)
         /\ lookup(subclass_events[c], "SIZE") # NoHandler
         /\ Len(installs[c]) = 1 /\ installs[c][1].res = "ok")
        => LET sizes == SelectSeq(ran[c], LAMBDA r : r.msg = "SIZE") IN
           /\ Len(sizes) = 1
           /\ sizes[1].at = 2
           /\ sizes[1].lparam = delivered[c][2].lparam
           /\ \A i \in 1..Len(ran[c]) : ran[c][i].at <= Len(Script)
           /\ ~OsInstalled(hwnd[c], installs[c][1].id)
           /\ (Len(delivered[c]) = Len(Script) /\ last.op = "deliver" /\ last.ctrl = c)
                 => /\ Len(Calls("RemoveWindowSubclass")) = 1
                    /\ Calls("RemoveWindowSubclass")[1].res = "ok"

\* the round trip with SIZE(640, 480) and one more SIZE after NCDESTROY
C9_Witness ==
    \E c \in Ctrls :
        /\ Len(delivered[c]) = Len(Script) + 1
        /\ delivered[c][Len(Script) + 1].msg = "SIZE"
        /\ Len(installs[c]) = 1 /\ installs[c][1].res = "ok"
        /\ ran[c] = <<[msg |-> "SIZE", lparam |-> MakeLParam(640, 480), at |-> 2]>>

\* C10: inserting a handler into an event table for a message id that already
\* has a handler in that table panics; the table never replaces a registered
\* handler, so every handler once registered stays the one stored under its id.
C10_DuplicateInsertPanics ==
    [][\A c \in Ctrls, id \in MsgIds :
          lookup(subclass_events[c], id) # NoHandler =>
             /\ lookup(subclass_events'[c], id) = lookup(subclass_events[c], id)
             /\ (last'.op = "on_subclass" /\ last'.ctrl = c /\ last'.msg = id)
                   => last'.outcome = "panic"]_vars

HostRegistrations == RegNames \cup {"wm"}

\* C11: inserting a handler into a host's event table through the table's own
\* registration operations, typed or untyped, after the owning window exists
\* panics: once the host window is created the entries of its tables never
\* change.
C11_NoRegistrationAfterCreation ==
    [][dlg_hwnd # NullHandle =>
          /\ user_events' = user_events
          /\ privileged_events' = privileged_events
          /\ last'.op \in HostRegistrations => last'.outcome = "panic"]_vars

ClosesOf(g) == SelectSeq(reg_closed, LAMBDA e : e.guard = g)
Predefined(h) == ~Less(h, HKEY_CLASSES_ROOT) /\ ~Less(HKEY_PERFORMANCE_NLSTEXT, h)

\* C12: dropping an HkeyGuard never calls RegCloseKey when the wrapped handle
\* is null or when its raw value lies in [HKEY::CLASSES_ROOT,
\* HKEY::PERFORMANCE_NLSTEXT], both ends included.
C12_PredefinedNeverClosed ==
    /\ \A i \in 1..Len(reg_closed) :
          /\ reg_closed[i].hkey # HKEY_NULL
          /\ ~Predefined(reg_closed[i].hkey)
    /\ \A g \in Guards :
          (hkey[g] = HKEY_NULL \/ Predefined(hkey[g])) => ClosesOf(g) = <<>>

\* guards on both ends of the range were dropped and nothing was closed
C12_Witness ==
    /\ hkey["g1"] = HKEY_CLASSES_ROOT
    /\ hkey["g2"] = HKEY_PERFORMANCE_NLSTEXT
    /\ dropped = Guards
    /\ reg_closed = <<>>

\* C13: for an HkeyGuard that wraps a non-null handle outside the predefined
\* range, RegCloseKey is called exactly once with that handle, at drop, and not
\* before (borrowing the handle through the guard never releases it); an error
\* RegCloseKey returns changes nothing.
C13_OwnedClosedOnceAtDrop ==
    \A g \in Guards :
        (hkey[g] # HKEY_NULL /\ ~Predefined(hkey[g])) =>
           /\ g \notin dropped => ClosesOf(g) = <<>>
           /\ g \in dropped =>
                 /\ Len(ClosesOf(g)) = 1
                 /\ ClosesOf(g)[1].hkey = hkey[g]
           /\ (last.op = "drop" /\ last.ctrl = g) =>
                 /\ Len(trace) = 1 /\ trace[1].guard = g
                 /\ last.panic = NoPanic

\* a key next to the range was lent, then dropped, and RegCloseKey failed
C13_Witness ==
    /\ hkey["g1"] = Raw(0, 0, 32768, 97)
    /\ "g1" \in dropped
    /\ "g2" \notin dropped /\ hkey["g2"] = Raw(0, 0, 0, 660)
    /\ last.op = "deref" /\ last.ctrl = "g2"
    /\ Len(ClosesOf("g1")) = 1 /\ ClosesOf("g1")[1].res = "err"

\* the user tables of a dialog nobody registered a handler on
NoUserHandlers == user_events = wm(NewEvents, "CLOSE", DefaultClose)

\* C14: for a modal dialog with no user-registered handlers, delivering
\* WM_CLOSE makes EndDialog be called on the dialog's handle with the result
\* DLGID::CANCEL = 2, and show_modal returns Ok(2); an error from EndDialog is
\* ignored.
C14_CloseEndsDialogWithCancel ==
    (last.op = "dlg_proc" /\ last.msg = "CLOSE" /\ NoUserHandlers) =>
        LET ends == Calls("EndDialog") IN
        /\ Len(ends) = 1
        /\ ends[1].hwnd = dlg_hwnd /\ dlg_hwnd = DlgHandle
        /\ ends[1].result = 2
        /\ last.panic = NoPanic
        /\ ends[1].res = "ok" => modal = [state |-> "returned", result |-> 2]
        /\ ends[1].res = "err" => modal.state = "running"

\* WM_CLOSE reached a dialog without user handlers and show_modal returned 2
C14_Witness ==
    /\ last.op = "dlg_proc" /\ last.msg = "CLOSE"
    /\ NoUserHandlers
    /\ Calls("EndDialog") # <<>>
    /\ modal = [state |-> "returned", result |-> DLGID_CANCEL]

\* C15: the framework's CLOSE handler of the modal dialog (end the modal loop
\* with the cancel code) is installed in the privileged table and a user's
\* registration cannot override it: after the user registers a WM_CLOSE handler
\* on the dialog's user events the framework's handler is still registered and
\* still runs on WM_CLOSE.
C15_CloseHandlerNotOverridable ==
    /\ \/ privileged_events["CLOSE"] = DefaultClose
       \/ user_events["CLOSE"] = DefaultClose
    /\ (last.op = "dlg_proc" /\ last.msg = "CLOSE" /\ last.panic = NoPanic) =>
          Len(Calls("EndDialog")) = 1

PrivilegedRuns ==
    SelectSeq(trace, LAMBDA e : e.call = "closure" /\ e.table = "privileged")
Abs(n) == IF n < 0 THEN -n ELSE n

\* C16: the privileged INITDIALOG handler of the modal dialog centers the
\* dialog over its parent and replies true (the word 1) in every execution in
\* which it returns; it never replies false.
C16_InitDialogRepliesTrue ==
    (last.op = "show_modal" /\ last.outcome # "err") =>
        LET pos == Calls("SetWindowPos") IN
        /\ Len(PrivilegedRuns) <= 1
        /\ last.panic = NoPanic => Len(PrivilegedRuns) = 1
        /\ \A i \in 1..Len(PrivilegedRuns) :
              /\ PrivilegedRuns[i].func = "center_in_parent"
              /\ PrivilegedRuns[i].fret = Ret("bool", TRUE, <<>>)
              /\ PrivilegedRuns[i].reply = ToBits(1, IsizeBits)
              /\ Len(pos) = 1 /\ pos[1].res = "ok" /\ pos[1].hwnd = dlg_hwnd
              /\ Abs(2 * pos[1].x + (pos[1].rc.right - pos[1].rc.left)
                       - (pos[1].rc_parent.left + pos[1].rc_parent.right)) <= 1
              /\ Abs(2 * pos[1].y + (pos[1].rc.bottom - pos[1].rc.top)
                       - (pos[1].rc_parent.top + pos[1].rc_parent.bottom)) <= 1

\* the handler returned after centering a dialog of odd width over an owner
\* whose left edge is off the screen
C16_Witness ==
    /\ last.op = "show_modal"
    /\ Len(PrivilegedRuns) = 1
    /\ Len(Calls("SetWindowPos")) = 1
    /\ Calls("SetWindowPos")[1].rc = Rect(30, 40, 131, 91)
    /\ Calls("SetWindowPos")[1].rc_parent = Rect(-7, 3, 100, 50)
    /\ modal.state = "running"

UserRuns ==
    SelectSeq(trace, LAMBDA e : e.call = "closure" /\ e.table = "user")
Dispatched == last.op \in {"dlg_proc", "show_modal"} /\ last.msg \in WmIds

VoidRegs == {"wm_activate", "wm_activate_app", "wm_close", "wm_command",
             "wm_destroy", "wm_drop_files", "wm_init_menu_popup", "wm_null",
             "wm_size", "wm_sizing"}
VoidVariant ==
    [ACTIVATE |-> "Activate", ACTIVATEAPP |-> "ActivateApp", CLOSE |-> "Close",
     COMMAND |-> "Command", DESTROY |-> "Destroy", DROPFILES |-> "DropFiles",
     INITMENUPOPUP |-> "InitMenuPopup", NULL |-> "Null", SIZE |-> "Size",
     SIZING |-> "Sizing"]
Ones(w) == [i \in 1..w |-> 1]
Zeros(w) == [i \in 1..w |-> 0]
One(w) == [i \in 1..w |-> IF i = 1 THEN 1 ELSE 0]

\* C17: for every void-return typed registration (activate, activate_app,
\* close, command, destroy, drop_files, init_menu_popup, null, size, sizing),
\* dispatching the matching message runs the user's handler exactly once, with
\* the decoded payload, and replies the message's fixed word: 1 for Sizing, 0
\* for all the others.
C17_VoidFamilyFixedReply ==
    (/\ Dispatched
     /\ user_events[last.msg].reg \in VoidRegs
     /\ user_events[last.msg].func \in Handlers) =>
        /\ last.panic = NoPanic
        /\ Len(UserRuns) = 1
        /\ UserRuns[1].func = user_events[last.msg].func
        /\ UserRuns[1].m = [variant |-> VoidVariant[last.msg],
                            wparam |-> last.id, lparam |-> last.lparam]
        /\ UserRuns[1].reply = IF last.msg = "SIZING" THEN One(IsizeBits)
                               ELSE Zeros(IsizeBits)
        /\ reply = UserRuns[1].reply

\* a user's wm_sizing handler ran and the dialog procedure replied 1
C17_Witness ==
    /\ Dispatched /\ last.msg = "SIZING" /\ last.id = 1
    /\ user_events["SIZING"] = Closure("wm_sizing", "f")
    /\ Len(UserRuns) = 1
    /\ reply = One(IsizeBits)

ConvtRegs == {"wm_create", "wm_init_dialog", "wm_notify", "wm_ctl_color_btn",
              "wm_ctl_color_dlg", "wm_ctl_color_edit", "wm_ctl_color_list_box",
              "wm_ctl_color_scroll_bar", "wm_ctl_color_static"}

\* C18: for every value-return typed registration the reply word is the
\* declared coercion of what the handler returned: a bool becomes 0 or 1
\* (wm_init_dialog), an i32 becomes its sign-extended word (wm_create, so -1
\* replies -1), an isize is returned unchanged (wm_notify), and a
\* device-context handle becomes its raw handle value (wm_ctl_color_*).
C18_ValueFamilyCoercion ==
    (/\ Dispatched
     /\ last.panic = NoPanic
     /\ user_events[last.msg].reg \in ConvtRegs
     /\ user_events[last.msg].func \in Handlers) =>
        /\ Len(UserRuns) = 1
        /\ reply = UserRuns[1].reply
        /\ Len(reply) = IsizeBits
        /\ LET reg == user_events[last.msg].reg
               fret == UserRuns[1].fret
           IN  CASE reg = "wm_init_dialog" ->
                       reply = IF fret.b THEN One(IsizeBits) ELSE Zeros(IsizeBits)
                 [] reg = "wm_create" ->
                       /\ \A i \in 1..I32Bits : reply[i] = fret.bits[i]
                       /\ \A i \in (I32Bits + 1)..IsizeBits : reply[i] = fret.bits[I32Bits]
                       /\ fret.bits = Ones(I32Bits) => reply = Ones(IsizeBits)
                 [] OTHER -> reply = fret.bits

\* a user's wm_create handler returned -1 and the reply is the word -1
C18_Witness ==
    /\ Dispatched /\ last.msg = "CREATE"
    /\ user_events["CREATE"] = Closure("wm_create", "f")
    /\ Len(UserRuns) = 1
    /\ UserRuns[1].fret.bits = Ones(I32Bits)
    /\ reply = Ones(IsizeBits)

InstallsMade == {<<c, i>> : c \in Ctrls, i \in 1..2} \cap
                {x \in Ctrls \X (1..2) : x[2] <= Len(installs[x[1]])}
IdsUsed == {installs[x[1]][x[2]].id : x \in InstallsMade}

\* C19: subclass ids come from one process-wide counter: the first subclass
\* installation of the process uses id 1 and, when installations follow one
\* another, each uses an id one greater than the one before, so ids grow
\* strictly and are never used twice; a control created without subclass
\* events does not consume an id.
C19_SubclassIdsSequential ==
    /\ \A c \in Ctrls : Len(installs[c]) <= 2
    /\ Cardinality(InstallsMade) = BASE_SUBCLASS_ID
    /\ IdsUsed = 1..BASE_SUBCLASS_ID
    /\ \A c \in Ctrls :
          (hwnd[c] # NullHandle /\ is_empty(subclass_events[c])) => installs[c] = <<>>
    /\ last.op \in Creations =>
          LET sets == Calls("SetWindowSubclass") IN
          /\ Len(sets) <= 1
          /\ sets # <<>> => sets[1].id = BASE_SUBCLASS_ID
          /\ sets = <<>> => (installs[last.ctrl] = <<>> \/ last.outcome = "panic")

\* two controls with subclass events were created one after the other
C19_Witness ==
    \E c, d \in Ctrls :
        /\ Len(installs[c]) = 1 /\ installs[c][1].id = 1
        /\ Len(installs[d]) = 1 /\ installs[d][1].id = 2
        /\ BASE_SUBCLASS_ID = 2
        /\ last.op \in Creations /\ last.ctrl = d

\* C20: the subclass id counter is advanced atomically: when two UI threads
\* create subclassed controls at the same time, under every interleaving the
\* two installations get distinct subclass ids and the counter ends up
\* advanced by exactly two.
C20_CounterAdvancedAtomically ==
    LET installed == {t \in Threads : pc[t] = "done"} IN
    (\A t \in Threads : pc[t] \in {"done", "skipped"}) =>
        /\ \A t, u \in installed : t # u => installed_id[t] # installed_id[u]
        /\ BASE_SUBCLASS_ID = Cardinality(installed)

Releases == SelectSeq(com_calls, LAMBDA e : e.call = "Release")

C22_NoAccessAfterRelease ==
    /\ \A a \in MapAddrs : ~msgs_heap[a].stale
    /\ last.op = "wm" => last.outcome = "ok"

Originals(a) == {e \in EvObjs : events_objs[e].original /\ events_objs[e].msgs = a}

\* C24: the map behind an Events object is released exactly once, when the
\* object `new` returned is dropped, and never by the drop of a clone; a
\* clone holds the pointer of the object it was made from, so a registration
\* through any object is in the map the original points to.
C24_MapReleasedOnceByOriginal ==
    /\ \A a \in MapAddrs :
          /\ msgs_heap[a].releases <= 1
          /\ msgs_heap[a].state # "free" => Cardinality(Originals(a)) = 1
          /\ msgs_heap[a].state = "released" <=>
                (\E e \in Originals(a) : events_objs[e].state = "dropped")
          /\ msgs_heap[a].state = "released" <=> msgs_heap[a].releases = 1
    /\ \A e \in EvObjs : events_objs[e].state # "none" =>
          /\ events_objs[e].msgs \in MapAddrs
          /\ Originals(events_objs[e].msgs) # {}
    /\ last.op = "clone" =>
          /\ events_objs[last.ctrl].msgs = events_objs[last.ref].msgs
          /\ ~events_objs[last.ctrl].original
    /\ (last.op = "drop" /\ last.ctrl \in EvObjs /\ ~events_objs[last.ctrl].original) =>
          trace = <<>>
    /\ (last.op = "wm" /\ last.outcome = "ok") =>
          \A o \in Originals(events_objs[last.ctrl].msgs) :
              lookup(msgs_heap[events_objs[o].msgs].map, last.msg) = last.ref

\* a clone registered a handler, the clone was dropped, then the original
C24_Witness ==
    \E o, e \in EvObjs :
        /\ events_objs[o].original /\ events_objs[o].state = "dropped"
        /\ ~events_objs[e].original /\ events_objs[e].state = "dropped"
        /\ events_objs[e].msgs = events_objs[o].msgs
        /\ msgs_heap[events_objs[o].msgs].releases = 1
        /\ ~is_empty(msgs_heap[events_objs[o].msgs].map)
        /\ ~msgs_heap[events_objs[o].msgs].stale
        /\ last.op = "drop" /\ last.ctrl = o

CenteringCalls ==
    SelectSeq(trace, LAMBDA e : e.call \in {"GetWindowRect", "GetParent", "SetWindowPos"})

\* C23: when GetWindowRect, GetParent or SetWindowPos fails while the modal
\* dialog is centered on INITDIALOG, show_modal ends with an error result;
\* nothing panics inside the message handler.
C23_CenteringFailureIsAnError ==
    (/\ last.op = "show_modal"
     /\ \E i \in 1..Len(CenteringCalls) : CenteringCalls[i].res = "err") =>
        /\ last.panic = NoPanic
        /\ last.outcome = "err"
        /\ modal.state = "failed"

AllRegs == RegNames \cup {"wm"}
ClosureRuns == SelectSeq(trace, LAMBDA e : e.call = "closure")
OwnId(tbl) ==
    \A id \in WmIds : tbl[id].reg \in RegNames => RegOf(tbl[id].reg).ident = id

\* C25: typed and untyped registration are one operation. Every wm_* method
\* stores its closure under the id of its own message with the insert that
\* wm uses: like wm it replaces what is stored under the id, like wm it is
\* accepted whether or not the window exists, and it touches no other entry.
\* A typed handler that runs was handed a payload of its own message variant.
C25_TypedLikeUntyped ==
    /\ [](/\ OwnId(user_events) /\ OwnId(privileged_events)
          /\ \A i \in 1..Len(ClosureRuns) :
                ClosureRuns[i].reg \in RegNames =>
                    /\ ClosureRuns[i].m.variant = RegOf(ClosureRuns[i].reg).pat
                    /\ ClosureRuns[i].m.variant = VariantOf(RegOf(ClosureRuns[i].reg).ident)
                    /\ last.msg = RegOf(ClosureRuns[i].reg).ident)
    /\ [][(last'.op \in AllRegs) =>
             /\ last'.outcome = "ok"
             /\ user_events'[last'.msg].reg = last'.op
             /\ user_events'[last'.msg].func \in Handlers
             /\ user_events' = wm(user_events, last'.msg, user_events'[last'.msg])
             /\ UNCHANGED <<privileged_events, modal, reply, dlg_hwnd>>]_vars

\* a typed registration made while the dialog is shown replaced the untyped
\* handler stored under its id, and its handler then ran on its own message
C25_Witness ==
    /\ Dispatched
    /\ last.msg = "CTLCOLORSCROLLBAR"
    /\ Len(UserRuns) = 1
    /\ UserRuns[1].reg = "wm_ctl_color_scroll_bar"
    /\ UserRuns[1].m.variant = "CtlColorListScrollBar"

\* C26: whenever the subclass dispatcher of a control is installed on a
\* window, the control's handle is stored, is not null and is that window:
\* SetWindowSubclass is called on the handle the creation just stored. A
\* message the OS delivers to the dispatcher therefore always gets to the
\* control's subclass table, never to the branch for a null handle.
C26_HandleStoredBeforeInstall ==
    /\ \A s \in os_subclass :
          /\ s.ref \in Ctrls
          /\ hwnd[s.ref] # NullHandle
          /\ hwnd[s.ref] = s.hwnd
    /\ (last.op \in Creations /\ Calls("SetWindowSubclass") # <<>>) =>
          /\ Calls("SetWindowSubclass")[1].hwnd = hwnd[last.ctrl]
          /\ hwnd[last.ctrl] # NullHandle
    /\ last.op = "deliver" =>
          /\ table_consulted(last.ref)
          /\ hwnd[last.ref] = hwnd[last.ctrl]
          /\ lookup(subclass_events[last.ref], last.msg) # NoHandler =>
                /\ Len(Calls("handler")) = 1
                /\ last.outcome # "NotHandled"

\* a message delivered to an installed dispatcher ran the control's handler
C26_Witness ==
    /\ last.op = "deliver"
    /\ last.msg = "SIZE"
    /\ Len(Calls("handler")) = 1
    /\ \E s \in os_subclass : s.ref = last.ctrl /\ s.hwnd = hwnd[last.ctrl]

\* the places in the trace at which the call named is made
PlacesOf(name) == {i \in 1..Len(trace) : trace[i].call = name}

\* C27: on NCDESTROY the dispatcher acts in a fixed order: the control's
\* subclass handler for NCDESTROY, when one is registered and the table is
\* consulted, runs first; then RemoveWindowSubclass is called; and only then,
\* when the message was not handled, DefSubclassProc. A registered handler of
\* a message the OS delivers has run by the time the subclass is removed.
C27_NcDestroyOrder ==
    (last.op \in Dispatches /\ last.msg = "NCDESTROY") =>
        /\ Cardinality(PlacesOf("RemoveWindowSubclass")) = 1
        /\ \A h \in PlacesOf("handler"), r \in PlacesOf("RemoveWindowSubclass") : h < r
        /\ \A r \in PlacesOf("RemoveWindowSubclass"), d \in PlacesOf("DefSubclassProc") : r < d
        /\ \A h \in PlacesOf("handler") : trace[h].msg = "NCDESTROY"
        /\ PlacesOf("DefSubclassProc") # {} <=> last.outcome = "NotHandled"
        /\ PlacesOf("handler") = {} <=> last.outcome = "NotHandled"
        /\ Len(trace) = Cardinality(PlacesOf("handler")) + 1
                        + Cardinality(PlacesOf("DefSubclassProc"))
        /\ (/\ last.op = "deliver"
            /\ lookup(subclass_events[last.ctrl], "NCDESTROY") # NoHandler) =>
               /\ trace[1].call = "handler"
               /\ trace[2].call = "RemoveWindowSubclass"
               /\ trace[2].res = "ok"

\* the OS delivered NCDESTROY to a control with a handler for it: the handler
\* ran, then the subclass was removed, and DefSubclassProc was not called
C27_Witness ==
    /\ last.op = "deliver"
    /\ last.msg = "NCDESTROY"
    /\ Len(trace) = 2
    /\ trace[1].call = "handler"
    /\ trace[2].call = "RemoveWindowSubclass"
    /\ os_subclass = {}

AutoBuilt == {c \in constructed : opts_given[c] = 0}

\* C28: an Edit built with Edit::new takes its control id from the auto-id
\* counter exactly when the id in its options is 0, and keeps a non-zero id
\* as given. ctrl_id(), the id its parent-scoped events are keyed by and the
\* id handed to CreateWindowEx are one value.
C28_CtrlIdAutoIffZero ==
    /\ BASE_CTRL_ID = AutoBase + Cardinality(AutoBuilt)
    /\ \A c \in constructed :
          /\ opts_given[c] # 0 => ctrl_id(c) = opts_given[c]
          /\ opts_given[c] = 0 =>
                /\ ctrl_id(c) \in AutoBase..(BASE_CTRL_ID - 1)
                /\ \A d \in AutoBuilt \ {c} : ctrl_id(d) # ctrl_id(c)
          /\ parent_events_id[c] = ctrl_id(c)
    /\ last.op = "Edit::new" =>
          /\ opts_given[last.ctrl] = last.id
          /\ last.id = 0 => ctrl_id(last.ctrl) = BASE_CTRL_ID - 1
    /\ last.op = "create_window" =>
          \A i \in 1..Len(Calls("CreateWindowEx")) :
              /\ Calls("CreateWindowEx")[i].id = ctrl_id(last.ctrl)
              /\ Calls("CreateWindowEx")[i].id = parent_events_id[last.ctrl]

\* one control was built with the id 7, one with the default options, and the
\* second was created with the id the counter gave it
C28_Witness ==
    \E c, d \in constructed :
        /\ opts_given[c] = 7 /\ ctrl_id(c) = 7
        /\ opts_given[d] = 0 /\ ctrl_id(d) = AutoBase
        /\ last.op = "create_window" /\ last.ctrl = d /\ last.outcome = "ok"
        /\ Len(Calls("CreateWindowEx")) = 1
        /\ Calls("CreateWindowEx")[1].id = AutoBase
====
